---- MODULE Spec2Model ----
(***************************************************************************)
(* Model of the mock-trial backend: the case routes (create case,         *)
(* generate judgment, submit argument, final verdict), the SQLite-backed   *)
(* DatabaseService, the Redis-backed CacheService and the retry/parse      *)
(* layer of LLMService.                                                    *)
(*                                                                         *)
(* One case id is modelled; "none" as its status means that no row of the  *)
(* cases table has that id (an unknown caseId).  Every route handler is an *)
(* async function: between two awaits it runs without interruption, and at *)
(* every await another handler may run.  Each action below is one such     *)
(* segment, named after the awaited call that it ends with.                *)
(*                                                                         *)
(* Optional values (undefined / null in the source) are sequences of       *)
(* length 0 or 1.                                                          *)
(***************************************************************************)
EXTENDS Integers, Sequences, FiniteSets, TLC

\* ------------------------------------------------------------------ bounds
\* Number of requests that can be in flight at the same time.
NumSlots == 2
\* Requests (of the three routes together) started in a behaviour of Spec.
MaxRequests == 2
\* Cache entry expiries (TTL) in a behaviour.
MaxExpiries == 1
\* Requests started in a behaviour of SpecRace.
RaceRequests == 3
\* Redis outages in a behaviour of SpecOutage, and its requests.
MaxOutages == 1
OutageRequests == 2
\* Submit-argument requests in a behaviour of SpecCap.
CapArgumentRequests == 6
\* Submit-argument requests in a behaviour of SpecSeq.
SeqArgumentRequests == 6
\* Requests started in a behaviour of SpecBand.
BandRequests == 2
\* Requests started in a behaviour of SpecRead, the reads not counted.
ReadRequests == 2
\* Reads of one route answered in a row while the store stays as it is.
MaxReads == 2

\* ------------------------------------------------------- program constants
MAX_ARGUMENTS == 5
maxRetries == 2
DefaultConfidence == 50
DefaultVersion == 1

Slots == 1..NumSlots

None == <<>>
Some(x) == <<x>>

\* JavaScript truthiness of an optional string / an optional number.
\* o.name in JavaScript: undefined (None) when the object has no such property.
Prop(o, name) == IF name \in DOMAIN o THEN o[name] ELSE None

\* value || null for an optional string: null (None) when undefined or empty.
OrNull(o) == IF o # None /\ o[1] # "" THEN o ELSE None

TruthyStr(o) == o # None /\ o[1] # ""
TruthyNum(o) == o # None /\ o[1] # 0

VARIABLES
    serverUp,       \* startServer has run: the routes accept requests
    client,         \* CacheService.client: "null" or "redis"
    isConnected,    \* CacheService.isConnected
    redisUp,        \* environment: the Redis server answers commands
    redis,          \* environment: value under the case's key (None: no entry)
    caseStatus,     \* cases.status of the case; "none": no such row
    judgments,      \* rows of the judgments table of the case, in insertion order
    arguments,      \* rows of the arguments table of the case, in insertion order
    clock,          \* wall clock, read by new Date() and datetime('now')
    req,            \* per slot: the handler in flight and its local variables
    lastResponse,   \* history: the response sent last, with the calls of its request
    reconsideredAt, \* history: created_at of the last judgment row written by a
                    \* submit-argument request that has answered 200 (0: none)
    started,        \* history: requests started per route, expiries, outages,
                    \* and whether a generate-judgment request was answered 200
    limit,          \* the bounds of the behaviour on started (never changes)
    caseDetails,    \* rows of the case_details table of the case, in insertion order
    gemini,         \* generateWithGemini: the call in progress and its history
    panel           \* frontend: the state of App and ArgumentPanel

vars == <<serverUp, client, isConnected, redisUp, redis, caseStatus, judgments,
          arguments, clock, req, lastResponse, reconsideredAt, started, limit,
          caseDetails, gemini, panel>>

cacheVars == <<client, isConnected, redisUp, redis>>
storeVars == <<caseStatus, judgments, arguments>>

\* ------------------------------------------------------------ local state
\* trace: the store, cache and backend calls made so far by the request;
\* priorOk: a generate-judgment request was answered 200 before the request
\* started; writtenAt: created_at of the judgment row the request wrote (0: none).
\* answer: history, the JSON object in the backend's text for the argument.
Idle == [kind |-> "idle", pc |-> "idle", side |-> "", attempt |-> 0,
         argumentCount |-> 0, caseData |-> FALSE, latestJudgment |-> None,
         judgmentsLength |-> 0, judgment |-> None, evaluation |-> None,
         trace |-> <<>>, priorOk |-> FALSE, writtenAt |-> 0, answer |-> None]

\* generateWithGemini before a call: no model tried.
GeminiIdle == [pc |-> "idle", model |-> 0, calls |-> <<>>]

\* App in the state 'arguments' with the ArgumentPanel mounted for a case without
\* arguments: the useState defaults of App and ArgumentPanel.  inFlight: the
\* calls of handleSubmit that have not settled, each with its side and the await
\* of handleSubmitArgument at which it stands; clicks counts those calls.
PanelMounted == [state |-> "arguments", sideAArgument |-> "", sideBArgument |-> "", activeSide |-> "null", argumentCount |-> 0, remainingArguments |-> 5, loading |-> FALSE, inFlight |-> <<>>, clicks |-> 0]

\* status 0: no response sent yet.  body: the judgment of a generate-judgment or
\* final-verdict response; evaluation: the ArgumentResponse of a submit-argument
\* response.
NoResponse == [status |-> 0, kind |-> "none", cached |-> FALSE, body |-> None,
               evaluation |-> None, remainingArguments |-> 0, trace |-> <<>>,
               priorOk |-> FALSE, seen |-> None, repeat |-> 0]

\* res.status(code).json({error: ...})
ErrorResponse(kind, code) == [NoResponse EXCEPT !.status = code, !.kind = kind]

\* JSON.stringify followed by JSON.parse (the cache value, the response body):
\* a Date becomes its ISO string, every other field is kept.
JsonRoundTrip(j) == [j EXCEPT !.timestamp = [type |-> "string", t |-> j.timestamp.t]]

\* new Date()
NewDate(now) == [type |-> "Date", t |-> now]

\* The four fields of a judgment that a client compares.
Content(j) == [verdict |-> j.verdict, reasoning |-> j.reasoning,
               legalBasis |-> j.legalBasis, confidence |-> j.confidence]

\* --------------------------------------------------------- DatabaseService
\* INSERT INTO judgments ...: the row that saveJudgment adds.
JudgmentRow(verdict, reasoning, legalBasis, confidence, version, now) ==
    [version |-> version, verdict |-> verdict, reasoning |-> reasoning,
     legalBasis |-> legalBasis, confidence |-> confidence, createdAt |-> now]

\* Variant of saveJudgment that keeps one row per version (INSERT OR REPLACE on
\* the version).
saveJudgment_ReplacesVersion(verdict, reasoning, legalBasis, confidence, version) ==
    /\ judgments' = Append(SelectSeq(judgments, LAMBDA j : j.version # version),
           JudgmentRow(verdict, reasoning, legalBasis, confidence, version, clock + 1))
    /\ caseStatus' = IF caseStatus = "none" THEN "none" ELSE "judged"
    /\ clock' = clock + 1

\* saveJudgment: the insert, then UPDATE cases SET status = 'judged'.
saveJudgment(verdict, reasoning, legalBasis, confidence, version) ==
    /\ judgments' = Append(judgments,
           JudgmentRow(verdict, reasoning, legalBasis, confidence, version, clock + 1))
    /\ caseStatus' = IF caseStatus = "none" THEN "none" ELSE "judged"
    /\ clock' = clock + 1

\* saveArgument: the insert, then UPDATE cases SET status = 'in_argument'.
\* metadata: strengthens, weakens, uncertaintyRemains and provisionalNote as
\* passed by the caller (None: undefined); each column gets `value || null`.
saveArgument(side, responseText, reconsidered, sequenceNumber, metadata) ==
    /\ arguments' = Append(arguments,
           [side |-> side, response |-> responseText, reconsidered |-> reconsidered,
            sequenceNumber |-> sequenceNumber,
            strengthens |-> OrNull(metadata.strengthens),
            weakens |-> OrNull(metadata.weakens),
            uncertaintyRemains |-> OrNull(metadata.uncertaintyRemains),
            provisionalNote |-> OrNull(metadata.provisionalNote)])
    /\ caseStatus' = IF caseStatus = "none" THEN "none" ELSE "in_argument"

MaxVersion(js) == CHOOSE v \in {js[i].version : i \in DOMAIN js} :
                      \A i \in DOMAIN js : js[i].version <= v

\* getLatestJudgment: ORDER BY version DESC LIMIT 1.  SQL leaves the order of
\* rows with equal versions open, so every row of maximum version is a
\* possible result.  The set of possible results (None: null).
getLatestJudgment(js) ==
    IF js = <<>> THEN {None}
    ELSE {Some(js[i]) : i \in {k \in DOMAIN js : js[k].version = MaxVersion(js)}}

\* getJudgments: ORDER BY version ASC.  The set of possible results: every
\* ordering of the rows that is ascending in version (rows of equal version
\* come in any order).  Ordered(js, idx): the orderings of the rows at idx.
RECURSIVE Ordered(_, _)
Ordered(js, idx) ==
    IF idx = {} THEN {<<>>}
    ELSE UNION { {<<js[i]>> \o rest : rest \in Ordered(js, idx \ {i})} :
                 i \in {k \in idx : \A m \in idx : js[k].version <= js[m].version} }

getJudgments(js) == Ordered(js, DOMAIN js)

\* getArgumentCount: SELECT COUNT(*).
getArgumentCount(as) == Len(as)

\* getCaseById: null when no row has the id.
getCaseById(status) == status # "none"

\* The object getCaseById returns for a case row: its status, and sideA / sideB
\* taken from the case_details rows of that side (null without such a row).
CaseDataOf(status, details) ==
    LET Detail(side) ==
            IF \E i \in DOMAIN details : details[i].side = side
            THEN LET i == CHOOSE k \in DOMAIN details : details[k].side = side IN
                 Some([summary |-> details[i].summary,
                       documents |-> details[i].documents,
                       evidence |-> details[i].evidence])
            ELSE None
    IN  [status |-> status, sideA |-> Detail("A"), sideB |-> Detail("B")]

\* getArguments: ORDER BY sequence_number.  The set of possible results: every
\* ordering of the rows that is ascending in sequence_number.
RECURSIVE OrderedArguments(_, _)
OrderedArguments(as, idx) ==
    IF idx = {} THEN {<<>>}
    ELSE UNION { {<<as[i]>> \o rest : rest \in OrderedArguments(as, idx \ {i})} :
                 i \in {k \in idx : \A m \in idx :
                                       as[k].sequenceNumber <= as[m].sequenceNumber} }

getArguments(as) == OrderedArguments(as, DOMAIN as)

\* The rows a statement returns when it is run on the database as it stands:
\* SQL leaves the order of rows that compare equal open, the same statement on
\* the same rows gives them in the same order.  One fixed possible result.
Rows(results) == CHOOSE r \in results : TRUE

\* ------------------------------------------------------------ CacheService
\* get: null unless connected; a failing client.get is caught and gives null.
cacheGet == IF isConnected /\ client = "redis" /\ redisUp
            THEN (IF redis = None THEN None ELSE Some(JsonRoundTrip(redis[1])))
            ELSE None

\* Variant of set: the value is not stored.
cacheSet_NotStored(value) == redis' = redis

\* set: setEx(key, ttl, JSON.stringify(value)); a no-op unless connected, and a
\* failing setEx is caught.
cacheSet(value) ==
    redis' = IF isConnected /\ client = "redis" /\ redisUp
             THEN Some(JsonRoundTrip(value)) ELSE redis

\* Variant of delete: the entry is dropped without the connection guard.
cacheDelete_Unguarded == redis' = None

\* delete: del(key); a no-op unless connected, and a failing del is caught.
cacheDelete ==
    redis' = IF isConnected /\ client = "redis" /\ redisUp THEN None ELSE redis

\* -------------------------------------------------------------- LLMService
\* What one call of the generation backend gives: it throws (ok = FALSE), or it
\* returns a text in which a JSON object is found (json) or not (None).
BackendError == [ok |-> FALSE, json |-> None]
NoJson == [ok |-> TRUE, json |-> None]
Text(obj) == [ok |-> TRUE, json |-> Some(obj)]

\* validateJudgment: verdict and reasoning required, confidence in 0..100.
validateJudgment(o) ==
    /\ o.verdict # None
    /\ o.reasoning # None
    /\ (o.confidence # None => (o.confidence[1] >= 0 /\ o.confidence[1] <= 100))

\* parseJudgmentResponse: None when it throws.
parseJudgmentResponse(raw, now) ==
    IF ~raw.ok \/ raw.json = None \/ ~validateJudgment(raw.json[1]) THEN None
    ELSE LET o == raw.json[1] IN
         Some([verdict |-> o.verdict[1],
               reasoning |-> o.reasoning[1],
               legalBasis |-> IF o.legalBasis = None THEN <<>> ELSE o.legalBasis[1],
               confidence |-> IF TruthyNum(o.confidence) THEN o.confidence[1]
                              ELSE DefaultConfidence,
               timestamp |-> NewDate(now)])

\* validateArgument: response required, confidence in 0..100.
validateArgument(o) ==
    /\ o.response # None
    /\ (o.confidence # None => (o.confidence[1] >= 0 /\ o.confidence[1] <= 100))

\* The optional evaluation fields of the argument schema besides reconsidered,
\* updatedReasoning and confidence.
EvaluationFields == {"strengthens", "weakens", "uncertaintyRemains", "provisionalNote"}

\* argumentResponse.strengthens, .weakens, .uncertaintyRemains, .provisionalNote
\* as the submit-argument route reads them from the evaluation.
EvaluationMetadata(argumentResponse) ==
    [f \in EvaluationFields |-> Prop(argumentResponse, f)]

\* parseArgumentResponse: None when it throws.
parseArgumentResponse(raw) ==
    IF ~raw.ok \/ raw.json = None \/ ~validateArgument(raw.json[1]) THEN None
    ELSE LET o == raw.json[1] IN
         Some([response |-> o.response[1],
               reconsidered |-> (o.reconsidered # None /\ o.reconsidered[1]),
               updatedReasoning |-> o.updatedReasoning,
               confidence |-> IF TruthyNum(o.confidence) THEN o.confidence[1]
                              ELSE DefaultConfidence])

\* -------------------------------------------------- inputs of the behaviours
\* Texts that the generation backend returns for a judgment prompt.
JudgmentObjects ==
    { [verdict |-> Some("for A"), reasoning |-> Some("r"), legalBasis |-> None,
       confidence |-> None],
      [verdict |-> Some("for B"), reasoning |-> Some("r"),
       legalBasis |-> Some(<<"act">>), confidence |-> Some(60)],
      [verdict |-> Some("for A"), reasoning |-> None, legalBasis |-> None,
       confidence |-> Some(60)],
      [verdict |-> Some("for A"), reasoning |-> Some("r"), legalBasis |-> None,
       confidence |-> Some(150)] }

JudgmentOutputs == {BackendError, NoJson} \cup {Text(o) : o \in JudgmentObjects}

\* Texts that the generation backend returns for a final-verdict prompt.
FinalOutputs ==
    { BackendError, NoJson,
      Text([verdict |-> Some("A is liable"), reasoning |-> Some("r3"),
            legalBasis |-> Some(<<"act", "precedent">>), confidence |-> Some(90)]) }

\* Texts that the generation backend returns for an argument prompt.
ArgumentObjects ==
    { [response |-> Some("good point"), reconsidered |-> None,
       updatedReasoning |-> None, confidence |-> None],
      [response |-> Some("good point"), reconsidered |-> Some(TRUE),
       updatedReasoning |-> Some("r2"), confidence |-> Some(80)],
      [response |-> Some("good point"), reconsidered |-> Some(TRUE),
       updatedReasoning |-> None, confidence |-> Some(80)],
      [response |-> None, reconsidered |-> Some(TRUE),
       updatedReasoning |-> Some("r2"), confidence |-> Some(80)] }

ArgumentOutputs == {BackendError, NoJson} \cup {Text(o) : o \in ArgumentObjects}

\* Request bodies of submit-argument.
SideInputs == {"A", "B", "C"}
ArgumentInputs == {"", "the receipt proves the loan"}

\* Form fields of create-case.
FieldInputs == {"", "x"}
EvidenceInputs == {"", "a receipt"}

\* Uploaded files of create-case per form field: TRUE for a file whose text can
\* be extracted.
NoFiles == [sideADocs |-> <<>>, sideBDocs |-> <<>>]
FileInputs == {[sideADocs |-> <<TRUE>>, sideBDocs |-> <<>>],
               [sideADocs |-> <<TRUE>>, sideBDocs |-> <<FALSE>>]}

\* ------------------------------------------------------------------- Init
\* After construction of the services: no cache client, an empty database,
\* the server not yet listening.
InitWith(l) ==
    /\ serverUp = FALSE
    /\ client = "null"
    /\ isConnected = FALSE
    /\ redisUp = TRUE
    /\ redis = None
    /\ caseStatus = "none"
    /\ judgments = <<>>
    /\ arguments = <<>>
    /\ clock = 0
    /\ req = [s \in Slots |-> Idle]
    /\ lastResponse = NoResponse
    /\ reconsideredAt = 0
    /\ started = [judgment |-> 0, argument |-> 0, final |-> 0, expiry |-> 0,
                  outage |-> 0, judgmentOk |-> FALSE]
    /\ limit = l
    /\ caseDetails = <<>>
    /\ gemini = GeminiIdle
    /\ panel = PanelMounted

Init == InitWith([requests |-> MaxRequests, judgment |-> MaxRequests,
                  argument |-> MaxRequests, final |-> MaxRequests,
                  expiry |-> MaxExpiries, outage |-> 0])

\* A further request of the route may start.
MayStart(route) ==
    /\ started.judgment + started.argument + started.final < limit.requests
    /\ started[route] < limit[route]

\* ------------------------------------------------- steps of a route handler
\* The calls of a request, with those just made added; a call that is repeated
\* at once (the retried backend call) is listed once.
Extend(calls, events) ==
    IF events # <<>> /\ calls # <<>> /\ calls[Len(calls)] = events[1]
    THEN calls \o Tail(events) ELSE calls \o events

\* A request is taken by the lowest slot that is free (slots have no identity).
FreeSlot(s) == req[s].kind = "idle" /\ \A t \in Slots : t < s => req[t].kind # "idle"

\* The event loop: a handler that is not waiting for the generation backend or
\* for Redis runs on.  The calls of DatabaseService wait for no I/O (sql.js runs
\* in memory, the file is written with writeFileSync), so the handler of slot s
\* is the one that runs while it is about to make one of them, or about to send
\* the cache command that follows a write.
Busy(s) ==
    \/ req[s].pc \in {"getLatestJudgment", "getJudgments", "saveArgument",
                      "saveJudgment", "cache.set", "cache.delete"}
    \/ (req[s].kind = "argument" /\ req[s].pc = "getCaseById")

\* No handler runs: a request or an event of the environment can be taken up.
NoneBusy == \A t \in Slots : ~Busy(t)

\* Slot s may take a step: no other handler is running.
Running(s) == \A t \in Slots \ {s} : ~Busy(t)

\* A request arrives at slot s: the handler starts and runs to its first await.
Accept(s, r, events) ==
    /\ req' = [req EXCEPT ![s] = [r EXCEPT !.trace = events,
                                           !.priorOk = started.judgmentOk]]
    /\ UNCHANGED lastResponse

\* A request is answered by the segment of the handler that started it.
AcceptAndRespond(s, resp, events) ==
    /\ lastResponse' = [resp EXCEPT !.trace = events \o <<"respond">>,
                                    !.priorOk = started.judgmentOk]
    /\ UNCHANGED req

\* The handler of slot s goes on to its next await.
Goto(s, r, events) ==
    /\ req' = [req EXCEPT ![s] = [r EXCEPT !.trace = Extend(req[s].trace, events)]]
    /\ UNCHANGED lastResponse

\* The handler of slot s sends its response and ends.
Respond(s, resp, events) ==
    /\ req' = [req EXCEPT ![s] = Idle]
    /\ lastResponse' = [resp EXCEPT !.trace = Extend(req[s].trace, events) \o <<"respond">>,
                                    !.priorOk = req[s].priorOk]

\* ------------------------------------------------------------ environment
\* startServer: databaseService.initialize(), cacheService.connect(), listen.
\* connect() leaves the client null when REDIS_HOST is not configured; else it
\* creates the client, and isConnected is set by the 'connect' event or stays
\* false when client.connect() throws.
startServer(configured) ==
    /\ NoneBusy
    /\ ~serverUp
    /\ serverUp' = TRUE
    /\ client' = IF configured THEN "redis" ELSE "null"
    /\ isConnected' = (configured /\ redisUp)
    /\ UNCHANGED <<redisUp, redis, storeVars, clock, req, lastResponse,
                   reconsideredAt, started, limit, caseDetails, gemini, panel>>

\* The Redis server becomes unreachable.
RedisDown ==
    /\ NoneBusy
    /\ redisUp
    /\ started.outage < limit.outage
    /\ redisUp' = FALSE
    /\ started' = [started EXCEPT !.outage = @ + 1]
    /\ UNCHANGED <<serverUp, client, isConnected, redis, storeVars, clock, req,
                   lastResponse, reconsideredAt, limit, caseDetails, gemini, panel>>

\* The Redis server becomes reachable again.
RedisRecover ==
    /\ NoneBusy
    /\ ~redisUp
    /\ redisUp' = TRUE
    /\ UNCHANGED <<serverUp, client, isConnected, redis, storeVars, clock, req,
                   lastResponse, reconsideredAt, started, limit, caseDetails, gemini, panel>>

\* client.on('error'): isConnected = false.
OnClientError ==
    /\ NoneBusy
    /\ client = "redis"
    /\ ~redisUp
    /\ isConnected
    /\ isConnected' = FALSE
    /\ UNCHANGED <<serverUp, client, redisUp, redis, storeVars, clock, req,
                   lastResponse, reconsideredAt, started, limit, caseDetails, gemini, panel>>

\* client.on('connect'): isConnected = true.
OnClientConnect ==
    /\ NoneBusy
    /\ client = "redis"
    /\ redisUp
    /\ ~isConnected
    /\ isConnected' = TRUE
    /\ UNCHANGED <<serverUp, client, redisUp, redis, storeVars, clock, req,
                   lastResponse, reconsideredAt, started, limit, caseDetails, gemini, panel>>

\* The TTL of the cache entry (3600 s) runs out.
CacheExpire ==
    /\ NoneBusy
    /\ redis # None
    /\ started.expiry < limit.expiry
    /\ redis' = None
    /\ started' = [started EXCEPT !.expiry = @ + 1]
    /\ UNCHANGED <<serverUp, client, isConnected, redisUp, storeVars, clock, req,
                   lastResponse, reconsideredAt, limit, caseDetails, gemini, panel>>

\* ------------------------------------------------------ POST /api/cases
\* extractTextFromFile for each uploaded file, the files of side A first: a file
\* whose text cannot be extracted throws, the route catches the error and logs
\* it.
ExtractEventsOf(docs) ==
    [i \in DOMAIN docs |-> IF docs[i] THEN "extractTextFromFile"
                           ELSE "extractTextFromFile throws"]

ExtractEvents(files) == ExtractEventsOf(files.sideADocs) \o ExtractEventsOf(files.sideBDocs)

\* The texts pushed to sideADocs / sideBDocs: one per file that was extracted.
ExtractedTexts(docs) == SelectSeq(docs, LAMBDA ok : ok)

\* JSON.parse of an evidence field throws on text that is not JSON.
JsonParses(text) == text \in {"[]", "[\"receipt\"]"}

\* sideAEvidence ? JSON.parse(sideAEvidence) : []
ParseEvidence(text) == IF text = "[\"receipt\"]" THEN <<"receipt">> ELSE <<>>

\* createCase: the case row with status 'pending' and the case_details rows of
\* side A and side B.
createCase(sideASummary, sideBSummary, sideAEvidence, sideBEvidence, files) ==
    /\ caseStatus' = "pending"
    /\ caseDetails' =
           << [side |-> "A", summary |-> sideASummary,
               documents |-> ExtractedTexts(files.sideADocs),
               evidence |-> ParseEvidence(sideAEvidence)],
              [side |-> "B", summary |-> sideBSummary,
               documents |-> ExtractedTexts(files.sideBDocs),
               evidence |-> ParseEvidence(sideBEvidence)] >>

\* Variant of the route that does not look at the summaries.
CreateCase_SummariesUnchecked(caseType, jurisdiction, sideASummary, sideBSummary, sideAEvidence, sideBEvidence, files) ==
    /\ NoneBusy
    /\ serverUp
    /\ caseStatus = "none"
    /\ IF caseType = "" \/ jurisdiction = ""
       THEN /\ lastResponse' = [ErrorResponse("create", 400) EXCEPT
                                    !.trace = <<"respond">>,
                                    !.priorOk = started.judgmentOk]
            /\ UNCHANGED <<caseStatus, caseDetails>>
       ELSE /\ lastResponse' = [NoResponse EXCEPT !.status = 201, !.kind = "create",
                                    !.trace = ExtractEvents(files) \o <<"createCase", "respond">>,
                                    !.priorOk = started.judgmentOk]
            /\ createCase(sideASummary, sideBSummary, sideAEvidence, sideBEvidence, files)
    /\ UNCHANGED <<cacheVars, serverUp, judgments, arguments, clock, req,
                   reconsideredAt, started, limit, gemini, panel>>

\* The create-case route: 400 when a required field is missing; else the text of
\* the uploaded files is extracted, the evidence fields are parsed (500 when one
\* does not parse) and createCase writes the case row with status 'pending'
\* together with the two case_details rows; the answer is 201.  The id of the
\* case is made by createCase, so no other request of the case is in flight.
CreateCase(caseType, jurisdiction, sideASummary, sideBSummary, sideAEvidence, sideBEvidence, files) ==
    /\ NoneBusy
    /\ serverUp
    /\ caseStatus = "none"
    /\ IF caseType = "" \/ jurisdiction = "" \/ sideASummary = "" \/ sideBSummary = ""
       THEN /\ lastResponse' = [ErrorResponse("create", 400) EXCEPT
                                    !.trace = <<"respond">>,
                                    !.priorOk = started.judgmentOk]
            /\ UNCHANGED <<caseStatus, caseDetails>>
       ELSE IF \/ (sideAEvidence # "" /\ ~JsonParses(sideAEvidence))
               \/ (sideBEvidence # "" /\ ~JsonParses(sideBEvidence))
            THEN /\ lastResponse' = [ErrorResponse("create", 500) EXCEPT
                                         !.trace = ExtractEvents(files) \o <<"respond">>,
                                         !.priorOk = started.judgmentOk]
                 /\ UNCHANGED <<caseStatus, caseDetails>>
            ELSE /\ lastResponse' = [NoResponse EXCEPT !.status = 201, !.kind = "create",
                                         !.trace = ExtractEvents(files) \o <<"createCase", "respond">>,
                                         !.priorOk = started.judgmentOk]
                 /\ createCase(sideASummary, sideBSummary, sideAEvidence, sideBEvidence, files)
    /\ UNCHANGED <<cacheVars, serverUp, judgments, arguments, clock, req,
                   reconsideredAt, started, limit, gemini, panel>>

\* --------------------------------------------------- GET /api/cases/:caseId
\* History of the read routes.  Store: what the reads read.  Repeat(kind): the
\* number of this read among the reads of the route answered in a row with the
\* store as it is now.
Store == <<caseStatus, caseDetails, judgments, arguments>>

Repeat(kind) ==
    IF lastResponse.kind = kind /\ lastResponse.seen = Some(Store)
    THEN lastResponse.repeat + 1 ELSE 1

\* The response of a read route.
ReadResponse(kind, code, body, remaining, events) ==
    [NoResponse EXCEPT !.status = code, !.kind = kind, !.body = body,
         !.remainingArguments = remaining,
         !.trace = events \o <<"respond">>,
         !.priorOk = started.judgmentOk,
         !.seen = Some(Store), !.repeat = Repeat(kind)]

\* Variant of the get-case route that marks the case as pending again.
GetCase_ResetsStatus ==
    /\ NoneBusy
    /\ serverUp
    /\ Repeat("case") <= MaxReads
    /\ lastResponse' =
           IF ~getCaseById(caseStatus)
           THEN ReadResponse("case", 404, None, 0, <<"getCaseById">>)
           ELSE ReadResponse("case", 200, Some(CaseDataOf(caseStatus, caseDetails)), 0,
                             <<"getCaseById">>)
    /\ caseStatus' = IF caseStatus = "none" THEN "none" ELSE "pending"
    /\ UNCHANGED <<serverUp, cacheVars, judgments, arguments, clock, req, reconsideredAt,
                   started, limit, caseDetails, gemini, panel>>

\* The get-case route: 404 when getCaseById returns null, else the case data.
GetCase ==
    /\ NoneBusy
    /\ serverUp
    /\ Repeat("case") <= MaxReads
    /\ lastResponse' =
           IF ~getCaseById(caseStatus)
           THEN ReadResponse("case", 404, None, 0, <<"getCaseById">>)
           ELSE ReadResponse("case", 200, Some(CaseDataOf(caseStatus, caseDetails)), 0,
                             <<"getCaseById">>)
    /\ UNCHANGED <<serverUp, cacheVars, storeVars, clock, req, reconsideredAt,
                   started, limit, caseDetails, gemini, panel>>

\* ------------------------------------------ POST /api/cases/:caseId/judgment
\* From the start of the handler to the result of cacheService.get: a cached
\* judgment is returned with cached: true.
GenerateJudgment_CacheGet(s) ==
    /\ Running(s)
    /\ serverUp
    /\ FreeSlot(s)
    /\ MayStart("judgment")
    /\ LET cachedJudgment == cacheGet IN
       IF cachedJudgment # None
       THEN /\ AcceptAndRespond(s, [NoResponse EXCEPT !.status = 200,
                                       !.kind = "judgment", !.cached = TRUE,
                                       !.body = cachedJudgment],
                                <<"cache.get">>)
            /\ started' = [started EXCEPT !.judgment = @ + 1, !.judgmentOk = TRUE]
       ELSE /\ Accept(s, [Idle EXCEPT !.kind = "judgment", !.pc = "getCaseById"],
                      <<"cache.get">>)
            /\ started' = [started EXCEPT !.judgment = @ + 1]
    /\ UNCHANGED <<serverUp, cacheVars, storeVars, clock, reconsideredAt, limit, caseDetails, gemini, panel>>

\* getCaseById: 404 when the case is not found.
GenerateJudgment_GetCase(s) ==
    /\ Running(s)
    /\ req[s].kind = "judgment"
    /\ req[s].pc = "getCaseById"
    /\ IF ~getCaseById(caseStatus)
       THEN Respond(s, ErrorResponse("judgment", 404), <<>>)
       ELSE Goto(s, [req[s] EXCEPT !.pc = "llm", !.attempt = 1, !.caseData = TRUE], <<>>)
    /\ UNCHANGED <<serverUp, cacheVars, storeVars, clock, reconsideredAt, started, limit, caseDetails, gemini, panel>>

\* llmService.generateJudgment: one attempt of its retry loop.  A failed attempt
\* (the backend throws, or the text does not parse) is followed by another one
\* while attempt < maxRetries; after the last one the handler answers 500.
GenerateJudgment_Attempt(s, raw) ==
    /\ Running(s)
    /\ req[s].kind = "judgment"
    /\ req[s].pc = "llm"
    /\ LET parsed == parseJudgmentResponse(raw, clock) IN
       IF parsed # None
       THEN Goto(s, [req[s] EXCEPT !.pc = "saveJudgment", !.judgment = parsed], <<"llm">>)
       ELSE IF req[s].attempt < maxRetries
            THEN Goto(s, [req[s] EXCEPT !.attempt = @ + 1], <<"llm">>)
            ELSE Respond(s, ErrorResponse("judgment", 500), <<"llm">>)
    /\ UNCHANGED <<serverUp, cacheVars, storeVars, clock, reconsideredAt, started, limit, caseDetails, gemini, panel>>

\* databaseService.saveJudgment without a version: the default version is used.
GenerateJudgment_SaveJudgment(s) ==
    /\ Running(s)
    /\ req[s].kind = "judgment"
    /\ req[s].pc = "saveJudgment"
    /\ LET judgment == req[s].judgment[1] IN
       saveJudgment(judgment.verdict, judgment.reasoning, judgment.legalBasis,
                    judgment.confidence, DefaultVersion)
    /\ Goto(s, [req[s] EXCEPT !.pc = "cache.set", !.writtenAt = clock + 1],
            <<"saveJudgment">>)
    /\ UNCHANGED <<serverUp, cacheVars, arguments, reconsideredAt, started, limit, caseDetails, gemini, panel>>

\* cacheService.set(cacheKey, judgment, 3600).
GenerateJudgment_CacheSet(s) ==
    /\ Running(s)
    /\ req[s].kind = "judgment"
    /\ req[s].pc = "cache.set"
    /\ cacheSet(req[s].judgment[1])
    /\ Goto(s, [req[s] EXCEPT !.pc = "respond"], <<"cache.set">>)
    /\ UNCHANGED <<serverUp, client, isConnected, redisUp, storeVars, clock,
                   reconsideredAt, started, limit, caseDetails, gemini, panel>>

\* res.json({...judgment, cached: false}).
GenerateJudgment_Respond(s) ==
    /\ Running(s)
    /\ req[s].kind = "judgment"
    /\ req[s].pc = "respond"
    /\ Respond(s, [NoResponse EXCEPT !.status = 200, !.kind = "judgment",
                      !.cached = FALSE,
                      !.body = Some(JsonRoundTrip(req[s].judgment[1]))], <<>>)
    /\ started' = [started EXCEPT !.judgmentOk = TRUE]
    /\ UNCHANGED <<serverUp, cacheVars, storeVars, clock, reconsideredAt, limit, caseDetails, gemini, panel>>

\* ----------------------------------------- POST /api/cases/:caseId/arguments
\* From the start of the handler to the result of getArgumentCount: 400 for an
\* invalid body (before anything is read), 400 when the limit is reached.
SubmitArgument_GetArgumentCount(s, side, argument) ==
    /\ Running(s)
    /\ serverUp
    /\ FreeSlot(s)
    /\ MayStart("argument")
    /\ started' = [started EXCEPT !.argument = @ + 1]
    /\ IF side = "" \/ argument = "" \/ (side # "A" /\ side # "B")
       THEN AcceptAndRespond(s, ErrorResponse("argument", 400), <<>>)
       ELSE LET argumentCount == getArgumentCount(arguments) IN
            IF argumentCount >= MAX_ARGUMENTS
            THEN AcceptAndRespond(s, ErrorResponse("argument", 400),
                                  <<"getArgumentCount">>)
            ELSE Accept(s, [Idle EXCEPT !.kind = "argument", !.pc = "getCaseById",
                               !.side = side, !.argumentCount = argumentCount],
                        <<"getArgumentCount">>)
    /\ UNCHANGED <<serverUp, cacheVars, storeVars, clock, reconsideredAt, limit, caseDetails, gemini, panel>>

\* getCaseById.
SubmitArgument_GetCase(s) ==
    /\ Running(s)
    /\ req[s].kind = "argument"
    /\ req[s].pc = "getCaseById"
    /\ Goto(s, [req[s] EXCEPT !.pc = "getLatestJudgment",
                   !.caseData = getCaseById(caseStatus)], <<>>)
    /\ UNCHANGED <<serverUp, cacheVars, storeVars, clock, reconsideredAt, started, limit, caseDetails, gemini, panel>>

\* Variant of the handler that looks at the case only, not at the judgment.
SubmitArgument_GetLatestJudgment_CaseOnly(s, latestJudgment) ==
    /\ Running(s)
    /\ req[s].kind = "argument"
    /\ req[s].pc = "getLatestJudgment"
    /\ latestJudgment \in getLatestJudgment(judgments)
    /\ IF ~req[s].caseData
       THEN Respond(s, ErrorResponse("argument", 404), <<>>)
       ELSE Goto(s, [req[s] EXCEPT !.pc = "llm", !.attempt = 1,
                        !.latestJudgment = latestJudgment], <<>>)
    /\ UNCHANGED <<serverUp, cacheVars, storeVars, clock, reconsideredAt, started, limit, caseDetails, gemini, panel>>

\* getLatestJudgment: 404 when the case or the judgment is missing.  Then
\* getArguments, whose result (the conversation history) goes into the prompt
\* only: the handler is next seen at the backend call.
SubmitArgument_GetLatestJudgment(s, latestJudgment) ==
    /\ Running(s)
    /\ req[s].kind = "argument"
    /\ req[s].pc = "getLatestJudgment"
    /\ latestJudgment \in getLatestJudgment(judgments)
    /\ IF ~req[s].caseData \/ latestJudgment = None
       THEN Respond(s, ErrorResponse("argument", 404), <<>>)
       ELSE Goto(s, [req[s] EXCEPT !.pc = "llm", !.attempt = 1,
                        !.latestJudgment = latestJudgment], <<>>)
    /\ UNCHANGED <<serverUp, cacheVars, storeVars, clock, reconsideredAt, started, limit, caseDetails, gemini, panel>>

\* Variant of the handler: the argument is recorded before its evaluation is
\* known, so a failed evaluation leaves a row behind.
SubmitArgument_ProcessArgument_RecordsFirst(s, raw) ==
    /\ Running(s)
    /\ req[s].kind = "argument"
    /\ req[s].pc = "llm"
    /\ LET argumentResponse == parseArgumentResponse(raw) IN
       IF argumentResponse # None
       THEN /\ Goto(s, [req[s] EXCEPT !.pc = "saveArgument",
                           !.evaluation = argumentResponse, !.answer = raw.json],
                    <<"llm">>)
            /\ UNCHANGED storeVars
       ELSE /\ saveArgument(req[s].side, "", FALSE, req[s].argumentCount + 1,
                            EvaluationMetadata([response |-> ""]))
            /\ Respond(s, ErrorResponse("argument", 500), <<"llm">>)
            /\ UNCHANGED judgments
    /\ UNCHANGED <<serverUp, cacheVars, clock, reconsideredAt, started, limit, caseDetails, gemini, panel>>

\* llmService.processArgument: one backend call (attempt 1, there is no loop);
\* any failure is rethrown and the handler answers 500.
SubmitArgument_ProcessArgument(s, raw) ==
    /\ Running(s)
    /\ req[s].kind = "argument"
    /\ req[s].pc = "llm"
    /\ LET argumentResponse == parseArgumentResponse(raw) IN
       IF argumentResponse # None
       THEN Goto(s, [req[s] EXCEPT !.pc = "saveArgument",
                        !.evaluation = argumentResponse, !.answer = raw.json],
                 <<"llm">>)
       ELSE Respond(s, ErrorResponse("argument", 500), <<"llm">>)
    /\ UNCHANGED <<serverUp, cacheVars, storeVars, clock, reconsideredAt, started, limit, caseDetails, gemini, panel>>

\* Variant of the response: the arguments remaining before this one.
ArgumentOk_BeforeThisOne(r) ==
    [NoResponse EXCEPT !.status = 200, !.kind = "argument",
        !.evaluation = r.evaluation,
        !.remainingArguments = MAX_ARGUMENTS - r.argumentCount]

\* res.json({...argumentResponse, remainingArguments}).
ArgumentOk(r) ==
    [NoResponse EXCEPT !.status = 200, !.kind = "argument",
        !.evaluation = r.evaluation,
        !.remainingArguments = MAX_ARGUMENTS - (r.argumentCount + 1)]

\* Variant of the handler: a reconsidered evaluation has the cache entry deleted
\* before the judgment row is written.
SubmitArgument_SaveArgument_DeleteFirst(s) ==
    /\ Running(s)
    /\ req[s].kind = "argument"
    /\ req[s].pc = "saveArgument"
    /\ LET argumentResponse == req[s].evaluation[1] IN
       /\ saveArgument(req[s].side, argumentResponse.response,
                       argumentResponse.reconsidered, req[s].argumentCount + 1,
                       EvaluationMetadata(argumentResponse))
       /\ IF argumentResponse.reconsidered /\ TruthyStr(argumentResponse.updatedReasoning)
          THEN Goto(s, [req[s] EXCEPT !.pc = "cache.delete"], <<"saveArgument">>)
          ELSE Respond(s, ArgumentOk(req[s]), <<"saveArgument">>)
    /\ UNCHANGED <<serverUp, cacheVars, judgments, clock, reconsideredAt, started, limit, caseDetails, gemini, panel>>

\* Variant of the handler: the cache entry is deleted after every argument,
\* reconsidered or not.
SubmitArgument_SaveArgument_AlwaysInvalidates(s) ==
    /\ Running(s)
    /\ req[s].kind = "argument"
    /\ req[s].pc = "saveArgument"
    /\ LET argumentResponse == req[s].evaluation[1] IN
       /\ saveArgument(req[s].side, argumentResponse.response,
                       argumentResponse.reconsidered, req[s].argumentCount + 1,
                       EvaluationMetadata(argumentResponse))
       /\ IF argumentResponse.reconsidered /\ TruthyStr(argumentResponse.updatedReasoning)
          THEN /\ Goto(s, [req[s] EXCEPT !.pc = "saveJudgment"], <<"saveArgument">>)
               /\ UNCHANGED redis
          ELSE /\ Respond(s, ArgumentOk(req[s]), <<"saveArgument">>)
               /\ cacheDelete
    /\ UNCHANGED <<serverUp, client, isConnected, redisUp, judgments, clock,
                   reconsideredAt, started, limit, caseDetails, gemini, panel>>

\* databaseService.saveArgument with sequence number argumentCount + 1; then the
\* response, unless the evaluation is reconsidered with an updatedReasoning.
SubmitArgument_SaveArgument(s) ==
    /\ Running(s)
    /\ req[s].kind = "argument"
    /\ req[s].pc = "saveArgument"
    /\ LET argumentResponse == req[s].evaluation[1] IN
       /\ saveArgument(req[s].side, argumentResponse.response,
                       argumentResponse.reconsidered, req[s].argumentCount + 1,
                       EvaluationMetadata(argumentResponse))
       /\ IF argumentResponse.reconsidered /\ TruthyStr(argumentResponse.updatedReasoning)
          THEN Goto(s, [req[s] EXCEPT !.pc = "saveJudgment"], <<"saveArgument">>)
          ELSE Respond(s, ArgumentOk(req[s]), <<"saveArgument">>)
    /\ UNCHANGED <<serverUp, cacheVars, judgments, clock, reconsideredAt, started, limit, caseDetails, gemini, panel>>

\* databaseService.saveJudgment: the verdict and legal basis of the judgment
\* read before, the updated reasoning, version latestJudgment.version + 1.
SubmitArgument_SaveJudgment(s) ==
    /\ Running(s)
    /\ req[s].kind = "argument"
    /\ req[s].pc = "saveJudgment"
    /\ LET argumentResponse == req[s].evaluation[1]
           latestJudgment == req[s].latestJudgment[1] IN
       saveJudgment(latestJudgment.verdict, argumentResponse.updatedReasoning[1],
                    latestJudgment.legalBasis, argumentResponse.confidence,
                    latestJudgment.version + 1)
    /\ Goto(s, [req[s] EXCEPT !.pc = "cache.delete", !.writtenAt = clock + 1],
            <<"saveJudgment">>)
    /\ UNCHANGED <<serverUp, cacheVars, arguments, reconsideredAt, started, limit, caseDetails, gemini, panel>>

\* cacheService.delete, then the response.
SubmitArgument_CacheDelete(s) ==
    /\ Running(s)
    /\ req[s].kind = "argument"
    /\ req[s].pc = "cache.delete"
    /\ cacheDelete
    /\ Respond(s, ArgumentOk(req[s]), <<"cache.delete">>)
    /\ reconsideredAt' = req[s].writtenAt
    /\ UNCHANGED <<serverUp, client, isConnected, redisUp, storeVars, clock, started, limit, caseDetails, gemini, panel>>

\* ------------------------------------------ GET /api/cases/:caseId/arguments
\* The get-arguments route: the rows of getArguments, their count and
\* MAX_ARGUMENTS - count.
GetArguments ==
    /\ NoneBusy
    /\ serverUp
    /\ Repeat("arguments") <= MaxReads
    /\ LET caseArguments == Rows(getArguments(arguments))
           count == Len(caseArguments)
       IN  lastResponse' = ReadResponse("arguments", 200, Some(caseArguments),
                                        MAX_ARGUMENTS - count, <<"getArguments">>)
    /\ UNCHANGED <<serverUp, cacheVars, storeVars, clock, req, reconsideredAt,
                   started, limit, caseDetails, gemini, panel>>

\* -------------------------------------- POST /api/cases/:caseId/final-verdict
\* From the start of the handler to the result of getCase: 404 when not found.
FinalVerdict_GetCase(s) ==
    /\ Running(s)
    /\ serverUp
    /\ FreeSlot(s)
    /\ MayStart("final")
    /\ started' = [started EXCEPT !.final = @ + 1]
    /\ IF ~getCaseById(caseStatus)
       THEN AcceptAndRespond(s, ErrorResponse("final", 404), <<>>)
       ELSE Accept(s, [Idle EXCEPT !.kind = "final", !.pc = "getJudgments",
                          !.caseData = TRUE], <<>>)
    /\ UNCHANGED <<serverUp, cacheVars, storeVars, clock, reconsideredAt, limit, caseDetails, gemini, panel>>

\* Variant of the handler: the request goes on to the backend without the test
\* for an initial judgment.
FinalVerdict_GetJudgments_Unchecked(s, js) ==
    /\ Running(s)
    /\ req[s].kind = "final"
    /\ req[s].pc = "getJudgments"
    /\ js \in getJudgments(judgments)
    /\ Goto(s, [req[s] EXCEPT !.pc = "llm", !.attempt = 1,
                   !.judgmentsLength = Len(js),
                   !.latestJudgment = IF Len(js) = 0 THEN None ELSE Some(js[Len(js)])],
            <<>>)
    /\ UNCHANGED <<serverUp, cacheVars, storeVars, clock, reconsideredAt, started, limit, caseDetails, gemini, panel>>

\* getJudgments: the handler uses the length and the last element.  Then
\* getArguments, whose result goes into the prompt only, and 400 when there is
\* no judgment.
FinalVerdict_GetJudgments(s, js) ==
    /\ Running(s)
    /\ req[s].kind = "final"
    /\ req[s].pc = "getJudgments"
    /\ js \in getJudgments(judgments)
    /\ IF Len(js) = 0
       THEN Respond(s, ErrorResponse("final", 400), <<>>)
       ELSE Goto(s, [req[s] EXCEPT !.pc = "llm", !.attempt = 1,
                        !.judgmentsLength = Len(js),
                        !.latestJudgment = Some(js[Len(js)])], <<>>)
    /\ UNCHANGED <<serverUp, cacheVars, storeVars, clock, reconsideredAt, started, limit, caseDetails, gemini, panel>>

\* llmService.generateFinalVerdict: one attempt of its retry loop.
FinalVerdict_Attempt(s, raw) ==
    /\ Running(s)
    /\ req[s].kind = "final"
    /\ req[s].pc = "llm"
    /\ LET parsed == parseJudgmentResponse(raw, clock) IN
       IF parsed # None
       THEN Goto(s, [req[s] EXCEPT !.pc = "saveJudgment", !.judgment = parsed], <<"llm">>)
       ELSE IF req[s].attempt < maxRetries
            THEN Goto(s, [req[s] EXCEPT !.attempt = @ + 1], <<"llm">>)
            ELSE Respond(s, ErrorResponse("final", 500), <<"llm">>)
    /\ UNCHANGED <<serverUp, cacheVars, storeVars, clock, reconsideredAt, started, limit, caseDetails, gemini, panel>>

\* databaseService.saveJudgment with version judgments.length + 1.
FinalVerdict_SaveJudgment(s) ==
    /\ Running(s)
    /\ req[s].kind = "final"
    /\ req[s].pc = "saveJudgment"
    /\ LET finalVerdict == req[s].judgment[1] IN
       saveJudgment(finalVerdict.verdict, finalVerdict.reasoning,
                    finalVerdict.legalBasis, finalVerdict.confidence,
                    req[s].judgmentsLength + 1)
    /\ Goto(s, [req[s] EXCEPT !.pc = "cache.delete", !.writtenAt = clock + 1],
            <<"saveJudgment">>)
    /\ UNCHANGED <<serverUp, cacheVars, arguments, reconsideredAt, started, limit, caseDetails, gemini, panel>>

\* cacheService.delete, then the response.
FinalVerdict_CacheDelete(s) ==
    /\ Running(s)
    /\ req[s].kind = "final"
    /\ req[s].pc = "cache.delete"
    /\ cacheDelete
    /\ Respond(s, [NoResponse EXCEPT !.status = 200, !.kind = "final",
                      !.body = Some(JsonRoundTrip(req[s].judgment[1]))],
               <<"cache.delete">>)
    /\ UNCHANGED <<serverUp, client, isConnected, redisUp, storeVars, clock,
                   reconsideredAt, started, limit, caseDetails, gemini, panel>>

\* ------------------------------------------------------------ specification
\* The routes, with every request body and every backend output of the input
\* sets; the Redis server stays reachable.
Next ==
    \/ \E configured \in BOOLEAN : startServer(configured)
    \/ CacheExpire
    \/ \E a, b, c, d \in FieldInputs : \E e, f \in EvidenceInputs :
           \E files \in FileInputs : CreateCase(a, b, c, d, e, f, files)
    \/ \E s \in Slots : GenerateJudgment_CacheGet(s)
    \/ \E s \in Slots : GenerateJudgment_GetCase(s)
    \/ \E s \in Slots, raw \in JudgmentOutputs : GenerateJudgment_Attempt(s, raw)
    \/ \E s \in Slots : GenerateJudgment_SaveJudgment(s)
    \/ \E s \in Slots : GenerateJudgment_CacheSet(s)
    \/ \E s \in Slots : GenerateJudgment_Respond(s)
    \/ \E s \in Slots, side \in SideInputs, argument \in ArgumentInputs :
           SubmitArgument_GetArgumentCount(s, side, argument)
    \/ \E s \in Slots : SubmitArgument_GetCase(s)
    \/ \E s \in Slots, l \in getLatestJudgment(judgments) :
           SubmitArgument_GetLatestJudgment(s, l)
    \/ \E s \in Slots, raw \in ArgumentOutputs : SubmitArgument_ProcessArgument(s, raw)
    \/ \E s \in Slots : SubmitArgument_SaveArgument(s)
    \/ \E s \in Slots : SubmitArgument_SaveJudgment(s)
    \/ \E s \in Slots : SubmitArgument_CacheDelete(s)
    \/ \E s \in Slots : FinalVerdict_GetCase(s)
    \/ \E s \in Slots, js \in getJudgments(judgments) : FinalVerdict_GetJudgments(s, js)
    \/ \E s \in Slots, raw \in FinalOutputs : FinalVerdict_Attempt(s, raw)
    \/ \E s \in Slots : FinalVerdict_SaveJudgment(s)
    \/ \E s \in Slots : FinalVerdict_CacheDelete(s)

Spec == Init /\ [][Next]_vars

\* The same routes and inputs, with one more request: three requests are what
\* two overlapping writers after a first judgment take.
InitRace == InitWith([requests |-> RaceRequests, judgment |-> RaceRequests,
                      argument |-> RaceRequests, final |-> RaceRequests,
                      expiry |-> MaxExpiries, outage |-> 0])

SpecRace == InitRace /\ [][Next]_vars

\* The routes while the Redis server goes down and comes back.  One valid and
\* one invalid text per prompt, one valid request body per route.
OutageJudgmentOutputs ==
    { BackendError,
      Text([verdict |-> Some("for B"), reasoning |-> Some("r"),
            legalBasis |-> Some(<<"act">>), confidence |-> Some(60)]) }

OutageFinalOutputs ==
    { BackendError,
      Text([verdict |-> Some("A is liable"), reasoning |-> Some("r3"),
            legalBasis |-> Some(<<"act", "precedent">>), confidence |-> Some(90)]) }

OutageArgumentOutputs ==
    { BackendError,
      Text([response |-> Some("good point"), reconsidered |-> Some(TRUE),
            updatedReasoning |-> Some("r2"), confidence |-> Some(80)]),
      Text([response |-> Some("good point"), reconsidered |-> Some(FALSE),
            updatedReasoning |-> None, confidence |-> None]) }

InitOutage == InitWith([requests |-> OutageRequests, judgment |-> OutageRequests,
                        argument |-> OutageRequests, final |-> OutageRequests,
                        expiry |-> 0, outage |-> MaxOutages])

NextOutage ==
    \/ \E configured \in BOOLEAN : startServer(configured)
    \/ RedisDown
    \/ RedisRecover
    \/ OnClientError
    \/ OnClientConnect
    \/ CreateCase("civil", "India", "loan not repaid", "it was a gift", "", "", NoFiles)
    \/ \E s \in Slots : GenerateJudgment_CacheGet(s)
    \/ \E s \in Slots : GenerateJudgment_GetCase(s)
    \/ \E s \in Slots, raw \in OutageJudgmentOutputs : GenerateJudgment_Attempt(s, raw)
    \/ \E s \in Slots : GenerateJudgment_SaveJudgment(s)
    \/ \E s \in Slots : GenerateJudgment_CacheSet(s)
    \/ \E s \in Slots : GenerateJudgment_Respond(s)
    \/ \E s \in Slots : SubmitArgument_GetArgumentCount(s, "A", "the receipt proves the loan")
    \/ \E s \in Slots : SubmitArgument_GetCase(s)
    \/ \E s \in Slots, l \in getLatestJudgment(judgments) :
           SubmitArgument_GetLatestJudgment(s, l)
    \/ \E s \in Slots, raw \in OutageArgumentOutputs :
           SubmitArgument_ProcessArgument(s, raw)
    \/ \E s \in Slots : SubmitArgument_SaveArgument(s)
    \/ \E s \in Slots : SubmitArgument_SaveJudgment(s)
    \/ \E s \in Slots : SubmitArgument_CacheDelete(s)
    \/ \E s \in Slots : FinalVerdict_GetCase(s)
    \/ \E s \in Slots, js \in getJudgments(judgments) : FinalVerdict_GetJudgments(s, js)
    \/ \E s \in Slots, raw \in OutageFinalOutputs : FinalVerdict_Attempt(s, raw)
    \/ \E s \in Slots : FinalVerdict_SaveJudgment(s)
    \/ \E s \in Slots : FinalVerdict_CacheDelete(s)

SpecOutage == InitOutage /\ [][NextOutage]_vars

\* Submit-argument up to and past the limit of five: one generate-judgment
\* request, no cache, arguments that are not reconsidered.
CapArgumentOutputs ==
    { Text([response |-> Some("good point"), reconsidered |-> Some(FALSE),
            updatedReasoning |-> None, confidence |-> None]) }

CapJudgmentOutputs ==
    { Text([verdict |-> Some("for B"), reasoning |-> Some("r"),
            legalBasis |-> Some(<<"act">>), confidence |-> Some(60)]) }

InitCap == InitWith([requests |-> CapArgumentRequests + 1, judgment |-> 1,
                     argument |-> CapArgumentRequests, final |-> 0,
                     expiry |-> 0, outage |-> 0])

NextCap ==
    \/ startServer(FALSE)
    \/ CreateCase("civil", "India", "loan not repaid", "it was a gift", "", "", NoFiles)
    \/ \E s \in Slots : GenerateJudgment_CacheGet(s)
    \/ \E s \in Slots : GenerateJudgment_GetCase(s)
    \/ \E s \in Slots, raw \in CapJudgmentOutputs : GenerateJudgment_Attempt(s, raw)
    \/ \E s \in Slots : GenerateJudgment_SaveJudgment(s)
    \/ \E s \in Slots : GenerateJudgment_CacheSet(s)
    \/ \E s \in Slots : GenerateJudgment_Respond(s)
    \/ \E s \in Slots, side \in {"A", "B"} :
           SubmitArgument_GetArgumentCount(s, side, "the receipt proves the loan")
    \/ \E s \in Slots : SubmitArgument_GetCase(s)
    \/ \E s \in Slots, l \in getLatestJudgment(judgments) :
           SubmitArgument_GetLatestJudgment(s, l)
    \/ \E s \in Slots, raw \in CapArgumentOutputs :
           SubmitArgument_ProcessArgument(s, raw)
    \/ \E s \in Slots : SubmitArgument_SaveArgument(s)

SpecCap == InitCap /\ [][NextCap]_vars

\* Submit-argument requests handled one after another, up to and past the limit
\* of five, after one generate-judgment request; no cache.
SeqJudgmentOutputs ==
    { Text([verdict |-> Some("for B"), reasoning |-> Some("r"),
            legalBasis |-> Some(<<"act">>), confidence |-> Some(60)]) }

SeqArgumentOutputs ==
    { Text([response |-> Some("good point"), reconsidered |-> Some(TRUE),
            updatedReasoning |-> Some("r2"), confidence |-> Some(80),
            strengthens |-> Some("Side A"), weakens |-> Some("Side B"),
            uncertaintyRemains |-> Some("whether the loan was repaid"),
            provisionalNote |-> Some("This does not constitute a final verdict.")]),
      Text([response |-> Some("good point"), reconsidered |-> Some(FALSE),
            updatedReasoning |-> None, confidence |-> None]) }

InitSeq == InitWith([requests |-> SeqArgumentRequests + 1, judgment |-> 1,
                     argument |-> SeqArgumentRequests, final |-> 0,
                     expiry |-> 0, outage |-> 0])

\* A submit-argument request arrives while no other one is in flight.
SubmitArgument_OneAtATime(s, side, argument) ==
    /\ \A t \in Slots : req[t].kind # "argument"
    /\ SubmitArgument_GetArgumentCount(s, side, argument)

NextSeq ==
    \/ startServer(FALSE)
    \/ CreateCase("civil", "India", "loan not repaid", "it was a gift", "", "", NoFiles)
    \/ \E s \in Slots : GenerateJudgment_CacheGet(s)
    \/ \E s \in Slots : GenerateJudgment_GetCase(s)
    \/ \E s \in Slots, raw \in SeqJudgmentOutputs : GenerateJudgment_Attempt(s, raw)
    \/ \E s \in Slots : GenerateJudgment_SaveJudgment(s)
    \/ \E s \in Slots : GenerateJudgment_CacheSet(s)
    \/ \E s \in Slots : GenerateJudgment_Respond(s)
    \/ \E s \in Slots, side \in {"A", "B"} :
           SubmitArgument_OneAtATime(s, side, "the receipt proves the loan")
    \/ \E s \in Slots : SubmitArgument_GetCase(s)
    \/ \E s \in Slots, l \in getLatestJudgment(judgments) :
           SubmitArgument_GetLatestJudgment(s, l)
    \/ \E s \in Slots, raw \in SeqArgumentOutputs :
           SubmitArgument_ProcessArgument(s, raw)
    \/ \E s \in Slots : SubmitArgument_SaveArgument(s)
    \/ \E s \in Slots : SubmitArgument_SaveJudgment(s)
    \/ \E s \in Slots : SubmitArgument_CacheDelete(s)

SpecSeq == InitSeq /\ [][NextSeq]_vars

\* One final-verdict request at any point of a case: before the case exists,
\* before its judgment, and after zero to five arguments (handled one after
\* another, none reconsidered); no cache.
InitFinal == InitWith([requests |-> SeqArgumentRequests + 2, judgment |-> 1,
                       argument |-> SeqArgumentRequests, final |-> 1,
                       expiry |-> 0, outage |-> 0])

NextFinal ==
    \/ startServer(FALSE)
    \/ CreateCase("civil", "India", "loan not repaid", "it was a gift", "", "", NoFiles)
    \/ \E s \in Slots : GenerateJudgment_CacheGet(s)
    \/ \E s \in Slots : GenerateJudgment_GetCase(s)
    \/ \E s \in Slots, raw \in SeqJudgmentOutputs : GenerateJudgment_Attempt(s, raw)
    \/ \E s \in Slots : GenerateJudgment_SaveJudgment(s)
    \/ \E s \in Slots : GenerateJudgment_CacheSet(s)
    \/ \E s \in Slots : GenerateJudgment_Respond(s)
    \/ \E s \in Slots, side \in {"A", "B"} :
           SubmitArgument_OneAtATime(s, side, "the receipt proves the loan")
    \/ \E s \in Slots : SubmitArgument_GetCase(s)
    \/ \E s \in Slots, l \in getLatestJudgment(judgments) :
           SubmitArgument_GetLatestJudgment(s, l)
    \/ \E s \in Slots, raw \in CapArgumentOutputs :
           SubmitArgument_ProcessArgument(s, raw)
    \/ \E s \in Slots : SubmitArgument_SaveArgument(s)
    \/ \E s \in Slots : FinalVerdict_GetCase(s)
    \/ \E s \in Slots, js \in getJudgments(judgments) : FinalVerdict_GetJudgments(s, js)
    \/ \E s \in Slots, raw \in FinalOutputs : FinalVerdict_Attempt(s, raw)
    \/ \E s \in Slots : FinalVerdict_SaveJudgment(s)
    \/ \E s \in Slots : FinalVerdict_CacheDelete(s)

SpecFinal == InitFinal /\ [][NextFinal]_vars

\* Generate-judgment and final-verdict with every kind of confidence that the
\* schema lets through: none, 0, the ends of the two bands, 100; no cache.
BandConfidences == {None, Some(0), Some(40), Some(70), Some(95), Some(100)}

BandOutputs ==
    { Text([verdict |-> Some("for B"), reasoning |-> Some("r"),
            legalBasis |-> Some(<<"act">>), confidence |-> c]) : c \in BandConfidences }

InitBand == InitWith([requests |-> BandRequests, judgment |-> BandRequests,
                      argument |-> 0, final |-> BandRequests,
                      expiry |-> 0, outage |-> 0])

NextBand ==
    \/ startServer(FALSE)
    \/ CreateCase("civil", "India", "loan not repaid", "it was a gift", "", "", NoFiles)
    \/ \E s \in Slots : GenerateJudgment_CacheGet(s)
    \/ \E s \in Slots : GenerateJudgment_GetCase(s)
    \/ \E s \in Slots, raw \in BandOutputs : GenerateJudgment_Attempt(s, raw)
    \/ \E s \in Slots : GenerateJudgment_SaveJudgment(s)
    \/ \E s \in Slots : GenerateJudgment_CacheSet(s)
    \/ \E s \in Slots : GenerateJudgment_Respond(s)
    \/ \E s \in Slots : FinalVerdict_GetCase(s)
    \/ \E s \in Slots, js \in getJudgments(judgments) : FinalVerdict_GetJudgments(s, js)
    \/ \E s \in Slots, raw \in BandOutputs : FinalVerdict_Attempt(s, raw)
    \/ \E s \in Slots : FinalVerdict_SaveJudgment(s)
    \/ \E s \in Slots : FinalVerdict_CacheDelete(s)

SpecBand == InitBand /\ [][NextBand]_vars

\* ------------------------------------------------------- with the read routes
\* All routes together with get-case and get-arguments, with a backend whose
\* answers are schema-valid.
InitRead == InitWith([requests |-> ReadRequests, judgment |-> ReadRequests,
                      argument |-> ReadRequests, final |-> ReadRequests,
                      expiry |-> 0, outage |-> 0])

NextRead ==
    \/ \E configured \in BOOLEAN : startServer(configured)
    \/ \E files \in FileInputs :
           CreateCase("civil", "India", "loan not repaid", "it was a gift", "", "", files)
    \/ GetCase
    \/ GetArguments
    \/ \E s \in Slots : GenerateJudgment_CacheGet(s)
    \/ \E s \in Slots : GenerateJudgment_GetCase(s)
    \/ \E s \in Slots, raw \in SeqJudgmentOutputs : GenerateJudgment_Attempt(s, raw)
    \/ \E s \in Slots : GenerateJudgment_SaveJudgment(s)
    \/ \E s \in Slots : GenerateJudgment_CacheSet(s)
    \/ \E s \in Slots : GenerateJudgment_Respond(s)
    \/ \E s \in Slots, side \in {"A", "B"} :
           SubmitArgument_GetArgumentCount(s, side, "the receipt proves the loan")
    \/ \E s \in Slots : SubmitArgument_GetCase(s)
    \/ \E s \in Slots, l \in getLatestJudgment(judgments) :
           SubmitArgument_GetLatestJudgment(s, l)
    \/ \E s \in Slots, raw \in SeqArgumentOutputs :
           SubmitArgument_ProcessArgument(s, raw)
    \/ \E s \in Slots : SubmitArgument_SaveArgument(s)
    \/ \E s \in Slots : SubmitArgument_SaveJudgment(s)
    \/ \E s \in Slots : SubmitArgument_CacheDelete(s)
    \/ \E s \in Slots : FinalVerdict_GetCase(s)
    \/ \E s \in Slots, js \in getJudgments(judgments) : FinalVerdict_GetJudgments(s, js)
    \/ \E s \in Slots, raw \in SeqJudgmentOutputs : FinalVerdict_Attempt(s, raw)
    \/ \E s \in Slots : FinalVerdict_SaveJudgment(s)
    \/ \E s \in Slots : FinalVerdict_CacheDelete(s)

SpecRead == InitRead /\ [][NextRead]_vars

\* Submit-argument up to and past the limit of five, with get-arguments.
NextCapRead ==
    \/ NextCap
    \/ GetArguments

SpecCapRead == InitCap /\ [][NextCapRead]_vars

\* ---------------------------------------------------- generateWithGemini
\* The models in the order of the loop.
GeminiModels == <<"gemini-2.5-flash", "gemini-flash-latest", "gemini-pro-latest">>

\* The outcome of model.generateContent and response.text() for one model: a
\* text, or an error with its message (as a sequence of words).
GeminiText == [ok |-> TRUE, message |-> <<>>]
GeminiError(message) == [ok |-> FALSE, message |-> message]

GeminiOutcomes ==
    { GeminiText,
      GeminiError(<<"429", "Too", "Many", "Requests">>),
      GeminiError(<<"503", "Service", "Unavailable">>),
      GeminiError(<<"The", "model", "is", "overloaded">>),
      GeminiError(<<"You", "exceeded", "your", "current", "quota">>),
      GeminiError(<<"400", "API", "key", "not", "valid">>),
      GeminiError(<<"fetch", "failed">>) }

\* lastError.message.includes('429') || includes('503') || includes('overloaded')
\* || includes('quota')
IsCapacityError(message) ==
    \E i \in DOMAIN message : message[i] \in {"429", "503", "overloaded", "quota"}

\* generateWithGemini is called: the loop starts at the first model.
generateWithGemini_Start ==
    /\ gemini.pc = "idle"
    /\ gemini' = [pc |-> "calling", model |-> 1, calls |-> <<>>]
    /\ UNCHANGED <<serverUp, cacheVars, storeVars, clock, req, lastResponse,
                   reconsideredAt, started, limit, caseDetails, panel>>

\* Variant of the loop that goes on to the next model after any error.
generateWithGemini_Call_AnyError(outcome) ==
    /\ gemini.pc = "calling"
    /\ LET calls == Append(gemini.calls,
                           [model |-> GeminiModels[gemini.model], outcome |-> outcome]) IN
       gemini' =
           IF outcome.ok
           THEN [gemini EXCEPT !.pc = "returned", !.calls = calls]
           ELSE IF gemini.model < Len(GeminiModels)
                THEN [gemini EXCEPT !.model = @ + 1, !.calls = calls]
                ELSE [gemini EXCEPT !.pc = "thrown", !.calls = calls]
    /\ UNCHANGED <<serverUp, cacheVars, storeVars, clock, req, lastResponse,
                   reconsideredAt, started, limit, caseDetails, panel>>

\* One pass of the loop: the model answers with a text, which is returned; or
\* it fails, and the loop continues with the next model after a 429 / 503 /
\* overloaded / quota error and rethrows any other error.  After the last model
\* 'All Gemini models failed' is thrown.
generateWithGemini_Call(outcome) ==
    /\ gemini.pc = "calling"
    /\ LET calls == Append(gemini.calls,
                           [model |-> GeminiModels[gemini.model], outcome |-> outcome]) IN
       gemini' =
           IF outcome.ok
           THEN [gemini EXCEPT !.pc = "returned", !.calls = calls]
           ELSE IF ~IsCapacityError(outcome.message)
                THEN [gemini EXCEPT !.pc = "thrown", !.calls = calls]
                ELSE IF gemini.model < Len(GeminiModels)
                     THEN [gemini EXCEPT !.model = @ + 1, !.calls = calls]
                     ELSE [gemini EXCEPT !.pc = "thrown", !.calls = calls]
    /\ UNCHANGED <<serverUp, cacheVars, storeVars, clock, req, lastResponse,
                   reconsideredAt, started, limit, caseDetails, panel>>

NextGemini ==
    \/ generateWithGemini_Start
    \/ \E outcome \in GeminiOutcomes : generateWithGemini_Call(outcome)

SpecGemini == Init /\ [][NextGemini]_vars

\* ------------------------------------------------ a backend that may not answer
\* The steps of the handler in slot s that wait for nothing but the event loop,
\* the store or Redis.  The steps that take the answer of the generation backend
\* are not among them: generateWithGemini and the other providers pass no
\* timeout and start no timer, so nothing ends a call that is not answered.
HandlerStep(s) ==
    \/ GenerateJudgment_GetCase(s)
    \/ GenerateJudgment_SaveJudgment(s)
    \/ GenerateJudgment_CacheSet(s)
    \/ GenerateJudgment_Respond(s)
    \/ SubmitArgument_GetCase(s)
    \/ \E l \in getLatestJudgment(judgments) : SubmitArgument_GetLatestJudgment(s, l)
    \/ SubmitArgument_SaveArgument(s)
    \/ SubmitArgument_SaveJudgment(s)
    \/ SubmitArgument_CacheDelete(s)
    \/ FinalVerdict_GetCase(s)
    \/ \E js \in getJudgments(judgments) : FinalVerdict_GetJudgments(s, js)
    \/ FinalVerdict_SaveJudgment(s)
    \/ FinalVerdict_CacheDelete(s)

\* The behaviours of Spec in which every handler goes on whenever it can.
SpecLive == Init /\ [][Next]_vars /\ \A s \in Slots : WF_vars(HandlerStep(s))

\* ------------------------------------------------- frontend: ArgumentPanel
MaxClicks == 3

\* What a user types into a textarea of the panel.
PanelTexts == {"", " ", "I repaid the loan in March"}

\* String.prototype.trim on the texts above.
Trim(text) == IF text = " " THEN "" ELSE text

\* const argument = side === 'A' ? sideAArgument : sideBArgument
ArgumentOf(side) == IF side = "A" THEN panel.sideAArgument ELSE panel.sideBArgument

\* const canSubmit = remainingArguments > 0 && !loading
canSubmit == panel.remainingArguments > 0 /\ ~panel.loading

\* The sequence calls without its i-th element.
Without(calls, i) == [j \in 1..(Len(calls) - 1) |-> IF j < i THEN calls[j] ELSE calls[j + 1]]

PanelUnchanged == UNCHANGED <<serverUp, cacheVars, storeVars, clock, req, lastResponse, reconsideredAt, started, limit, caseDetails, gemini>>

\* onChange of the textarea of Side A, which is disabled when
\* !canSubmit || activeSide === 'B'.
setSideAArgument(text) ==
    /\ panel.state = "arguments"
    /\ canSubmit /\ panel.activeSide # "B"
    /\ panel' = [panel EXCEPT !.sideAArgument = text]
    /\ PanelUnchanged

\* onChange of the textarea of Side B, which is disabled when
\* !canSubmit || activeSide === 'A'.
setSideBArgument(text) ==
    /\ panel.state = "arguments"
    /\ canSubmit /\ panel.activeSide # "A"
    /\ panel' = [panel EXCEPT !.sideBArgument = text]
    /\ PanelUnchanged

\* A click on the submit button of a side, which is disabled when
\* !canSubmit || !argument.trim() || activeSide !== null.  handleSubmit returns
\* on an empty argument, else sets activeSide and awaits onSubmitArgument, which
\* awaits submitArgument.
handleSubmit(side) ==
    /\ panel.state = "arguments"
    /\ canSubmit /\ Trim(ArgumentOf(side)) # "" /\ panel.activeSide = "null"
    /\ panel.clicks < MaxClicks
    /\ panel' = IF Trim(ArgumentOf(side)) = ""
                THEN [panel EXCEPT !.clicks = @ + 1]
                ELSE [panel EXCEPT !.clicks = @ + 1,
                                   !.activeSide = side,
                                   !.inFlight = Append(@, [side |-> side, pc |-> "submitArgument"])]
    /\ PanelUnchanged

\* The POST of the i-th call settles.  Fulfilled: handleSubmitArgument goes on to
\* await getArguments.  Rejected (a network error or a status other than 2xx):
\* its catch shows a toast and rethrows, so the await in handleSubmit throws and
\* the statements after it do not run.
submitArgument_Settle(i, ok) ==
    /\ i \in DOMAIN panel.inFlight
    /\ panel.inFlight[i].pc = "submitArgument"
    /\ panel' = IF ok
                THEN [panel EXCEPT !.inFlight[i].pc = "getArguments"]
                ELSE [panel EXCEPT !.inFlight = Without(@, i)]
    /\ PanelUnchanged

\* The GET that refreshes the list settles for the i-th call.  Fulfilled with
\* count rows (the row just stored among them): setArgumentList,
\* setRemainingArguments(MAX_ARGUMENTS - count as the route computes it), the
\* response is returned, and handleSubmit clears the text of its side and sets
\* activeSide to null (in the mounted panel).  Rejected: the catch rethrows as
\* above.
getArguments_Settle(i, ok, count) ==
    /\ i \in DOMAIN panel.inFlight
    /\ panel.inFlight[i].pc = "getArguments"
    /\ LET side == panel.inFlight[i].side
           left == Without(panel.inFlight, i) IN
       panel' =
           IF ~ok
           THEN [panel EXCEPT !.inFlight = left]
           ELSE IF panel.state # "arguments"
                THEN [panel EXCEPT !.inFlight = left,
                                   !.argumentCount = count,
                                   !.remainingArguments = MAX_ARGUMENTS - count]
                ELSE [panel EXCEPT !.inFlight = left,
                                   !.argumentCount = count,
                                   !.remainingArguments = MAX_ARGUMENTS - count,
                                   !.sideAArgument = IF side = "A" THEN "" ELSE @,
                                   !.sideBArgument = IF side = "B" THEN "" ELSE @,
                                   !.activeSide = "null"]
    /\ PanelUnchanged

\* A click on 'Generate Final Verdict', shown when argumentList.length > 0 and
\* disabled while loading: setLoading(true), then the POST is awaited.
handleGenerateFinalVerdict ==
    /\ panel.state = "arguments"
    /\ panel.argumentCount > 0 /\ ~panel.loading
    /\ panel' = [panel EXCEPT !.loading = TRUE]
    /\ PanelUnchanged

\* The POST of the final verdict settles.  Fulfilled: setState('final-verdict'),
\* which unmounts the panel; in both cases the finally block runs
\* setLoading(false).
generateFinalVerdict_Settle(ok) ==
    /\ panel.loading
    /\ panel' = [panel EXCEPT !.loading = FALSE,
                              !.state = IF ok THEN "final-verdict" ELSE @]
    /\ PanelUnchanged

NextPanel ==
    \/ \E text \in PanelTexts : setSideAArgument(text)
    \/ \E text \in PanelTexts : setSideBArgument(text)
    \/ \E side \in {"A", "B"} : handleSubmit(side)
    \/ \E i \in 1..MaxClicks, ok \in BOOLEAN : submitArgument_Settle(i, ok)
    \/ \E i \in 1..MaxClicks, ok \in BOOLEAN, count \in 1..(MAX_ARGUMENTS + 1) : getArguments_Settle(i, ok, count)
    \/ handleGenerateFinalVerdict
    \/ \E ok \in BOOLEAN : generateFinalVerdict_Settle(ok)

SpecPanel == Init /\ [][NextPanel]_vars

\* ------------------------------------------------------------------ claims
\* e is one of the calls of the request.
Called(calls, e) == \E i \in DOMAIN calls : calls[i] = e

\* The last three calls of the request.
LastThree(calls) ==
    IF Len(calls) < 3 THEN calls ELSE SubSeq(calls, Len(calls) - 2, Len(calls))

\* The cache cannot serve: no client configured, not connected, or the Redis
\* server does not answer (the guard of get, set and delete, and their catch).
CacheUnavailable == client = "null" \/ ~isConnected \/ ~redisUp

\* C1: the number of arguments recorded for a case is at most MAX_ARGUMENTS,
\* whatever the order in which submit-argument requests, overlapping ones
\* included, are handled.
C1_ArgumentCountWithinLimit == Len(arguments) <= MAX_ARGUMENTS

\* C2: no two argument rows of a case have the same sequenceNumber, also when
\* submit-argument requests overlap.
C2_SequenceNumbersDistinct ==
    \A i, j \in DOMAIN arguments :
        i # j => arguments[i].sequenceNumber # arguments[j].sequenceNumber

\* C3: whatever getJudgments returns, the versions of the rows are 1, 2, ..., n
\* in that order, after any sequence of generate-judgment, submit-argument and
\* final-verdict requests, with the cache missing or expired at any point.
C3_VersionsGapless ==
    \A js \in getJudgments(judgments) : \A i \in DOMAIN js : js[i].version = i

\* C4: when generate-judgment has run exactly once, no two judgment rows of the
\* case have the same version, also when reconsidering submit-argument requests
\* and final-verdict requests overlap.
C4_VersionsDistinct ==
    started.judgment = 1 =>
        \A i, j \in DOMAIN judgments :
            i # j => judgments[i].version # judgments[j].version

\* C5: a submit-argument request that records an argument with reconsidered =
\* true (the flag of its row is the flag of its response) has also written a
\* judgment row.
C5_ReconsideredWritesJudgment ==
    (/\ lastResponse.kind = "argument"
     /\ lastResponse.status = 200
     /\ lastResponse.evaluation[1].reconsidered)
    => Called(lastResponse.trace, "saveJudgment")

\* C6: once an argument is recorded for the case, the status of the case is
\* in_argument, whatever judgments are written afterwards.
C6_StatusStaysInArgument == Len(arguments) > 0 => caseStatus = "in_argument"

\* C7: after a submit-argument request that wrote a new judgment version has
\* answered 200, a cache get gives null or a judgment that is at least as new as
\* the version that request wrote, also when a generate-judgment request
\* overlaps with it.
C7_CacheNotStale ==
    (reconsideredAt > 0 /\ cacheGet # None) => cacheGet[1].timestamp.t >= reconsideredAt

\* C8: a reconsidering submit-argument request and a final-verdict request
\* write the judgment row, then delete the cache entry, then send the success
\* response; the delete is reached only with the row in the store, and a request
\* that got as far as the delete answers 200 also when the delete fails.
C8_WriteThenInvalidate ==
    /\ \A s \in Slots :
           req[s].pc = "cache.delete" =>
               /\ req[s].trace[Len(req[s].trace)] = "saveJudgment"
               /\ \E i \in DOMAIN judgments : judgments[i].createdAt = req[s].writtenAt
    /\ (/\ lastResponse.kind \in {"argument", "final"}
        /\ \/ Called(lastResponse.trace, "saveJudgment")
           \/ Called(lastResponse.trace, "cache.delete"))
       => /\ lastResponse.status = 200
          /\ LastThree(lastResponse.trace) = <<"saveJudgment", "cache.delete", "respond">>
    /\ (lastResponse.kind = "final" /\ lastResponse.status = 200)
       => Called(lastResponse.trace, "cache.delete")

\* After the one generate-judgment request, a final-verdict or reconsidering
\* submit-argument request has answered 200, as the last of all requests,
\* although its delete failed: the entry is still under the key of a Redis
\* server that does not answer.
C8_Witness ==
    /\ \A s \in Slots : req[s].kind = "idle"
    /\ started.judgment = 1
    /\ started.argument + started.final = 1
    /\ lastResponse.kind \in {"argument", "final"}
    /\ lastResponse.status = 200
    /\ Called(lastResponse.trace, "cache.delete")
    /\ client = "redis"
    /\ ~redisUp
    /\ redis # None

\* C9 as stated: a generate-judgment request that starts after another one was
\* answered 200, with no submit-argument request, no final-verdict request and no
\* expiry in between, is answered from the cache: cached = true, no backend call
\* and no judgment row written.
C9_SecondIsCached ==
    (/\ lastResponse.kind = "judgment"
     /\ lastResponse.status = 200
     /\ lastResponse.priorOk
     /\ started.argument = 0
     /\ started.final = 0
     /\ started.expiry = 0)
    => /\ lastResponse.cached
       /\ lastResponse.trace = <<"cache.get", "respond">>

\* C9, amended: the same, provided that the cache is configured and has been
\* reachable all along.  The content of the cached response is that of a
\* judgment row that a generate-judgment request wrote, as is the content of a
\* response that is not cached; with one such row only, both are the same.
C9_SecondIsCachedWhenCacheServes ==
    /\ (/\ lastResponse.kind = "judgment"
        /\ lastResponse.status = 200
        /\ lastResponse.priorOk
        /\ started.argument = 0
        /\ started.final = 0
        /\ started.expiry = 0
        /\ started.outage = 0
        /\ client = "redis")
       => /\ lastResponse.cached
          /\ lastResponse.trace = <<"cache.get", "respond">>
    /\ (/\ lastResponse.kind = "judgment"
        /\ lastResponse.status = 200
        /\ started.argument = 0
        /\ started.final = 0)
       => /\ \E i \in DOMAIN judgments :
                 /\ judgments[i].version = DefaultVersion
                 /\ Content(judgments[i]) = Content(lastResponse.body[1])
          /\ lastResponse.body[1].timestamp.type = "string"
          /\ lastResponse.cached => lastResponse.trace = <<"cache.get", "respond">>

\* The second generate-judgment request was answered from the cache, and one
\* judgment row is in the store.
C9_Witness ==
    /\ lastResponse.kind = "judgment"
    /\ lastResponse.status = 200
    /\ lastResponse.priorOk
    /\ lastResponse.cached
    /\ started.judgment = 2
    /\ started.argument = 0
    /\ started.final = 0
    /\ started.expiry = 0
    /\ Len(judgments) = 1

\* C10: while the cache is not configured or not reachable, get gives null and
\* set and delete leave the entry as it is; a handler that has reached its cache
\* call goes on to its success response; a response sent while the cache cannot
\* serve is not a cached one; and a 500 comes from the backend call only.
C10_CacheFailsSilently ==
    [][/\ CacheUnavailable => cacheGet = None
       /\ CacheUnavailable => redis' = redis
       /\ \A s \in Slots :
              (req[s].pc \in {"cache.set", "cache.delete"} /\ req'[s] # req[s])
              => \/ req'[s].pc = "respond"
                 \/ (lastResponse'.status = 200 /\ lastResponse'.kind = req[s].kind)
       /\ \A s \in Slots :
              (req[s].pc = "respond" /\ req'[s] # req[s])
              => /\ lastResponse'.status = 200
                 /\ lastResponse'.kind = "judgment"
                 /\ ~lastResponse'.cached
       /\ (CacheUnavailable /\ lastResponse' # lastResponse) => ~lastResponse'.cached
       /\ lastResponse'.status = 500
              => /\ Len(lastResponse'.trace) >= 2
                 /\ lastResponse'.trace[Len(lastResponse'.trace) - 1] = "llm"]_vars

\* With an entry under the key and the cache unable to serve, a
\* generate-judgment request that started after the first was answered missed, wrote its row, called set and was answered
\* 200, not cached.
C10_Witness ==
    /\ CacheUnavailable
    /\ client = "redis"
    /\ redis # None
    /\ lastResponse.kind = "judgment"
    /\ lastResponse.status = 200
    /\ lastResponse.priorOk
    /\ ~lastResponse.cached
    /\ Called(lastResponse.trace, "cache.set")
    /\ started.judgment = 2
    /\ Len(judgments) = 2

\* C11: a final-verdict request for an unknown case is answered 404 and one for
\* a case without a judgment 400, both without a backend call and without a
\* judgment row written; a request for a case with a judgment reaches the
\* backend, whatever the number of arguments, and with a valid backend output
\* it writes its row and is answered 200.
C11_FinalVerdictNeedsJudgment ==
    [][/\ (started'.final = started.final + 1 /\ caseStatus = "none")
          => /\ lastResponse'.kind = "final"
             /\ lastResponse'.status = 404
             /\ lastResponse'.trace = <<"respond">>
             /\ UNCHANGED <<req, storeVars, redis>>
       /\ (started'.final = started.final + 1 /\ caseStatus # "none")
          => \E s \in Slots : req'[s].kind = "final" /\ req'[s].pc = "getJudgments"
       /\ \A s \in Slots :
              (req[s].kind = "final" /\ req[s].pc = "getJudgments" /\ req'[s] # req[s])
              => IF Len(judgments) = 0
                 THEN /\ lastResponse'.kind = "final"
                      /\ lastResponse'.status = 400
                      /\ lastResponse'.trace = <<"respond">>
                      /\ req'[s] = Idle
                      /\ UNCHANGED <<storeVars, redis>>
                 ELSE req'[s].pc = "llm"
       /\ \A s \in Slots, raw \in FinalOutputs :
              (FinalVerdict_Attempt(s, raw) /\ parseJudgmentResponse(raw, clock) # None)
              => req'[s].pc = "saveJudgment"
       /\ \A s \in Slots :
              (req[s].kind = "final" /\ req[s].pc = "saveJudgment" /\ req'[s] # req[s])
              => Len(judgments') = Len(judgments) + 1 /\ req'[s].pc = "cache.delete"
       /\ \A s \in Slots :
              (req[s].kind = "final" /\ req[s].pc = "cache.delete" /\ req'[s] # req[s])
              => lastResponse'.kind = "final" /\ lastResponse'.status = 200
       /\ lastResponse'.kind = "final"
          => /\ lastResponse'.status \in {200, 400, 404, 500}
             /\ lastResponse'.status \in {400, 404}
                => /\ ~Called(lastResponse'.trace, "llm")
                   /\ ~Called(lastResponse'.trace, "saveJudgment")
             /\ lastResponse'.status = 200
                => /\ Called(lastResponse'.trace, "llm")
                   /\ Called(lastResponse'.trace, "saveJudgment")
                   /\ \E i \in DOMAIN judgments' :
                          Content(judgments'[i]) = Content(lastResponse'.body[1])]_vars

\* A final-verdict request was answered 200 for a case with five arguments.
C11_Witness ==
    /\ lastResponse.kind = "final"
    /\ lastResponse.status = 200
    /\ Len(arguments) = MAX_ARGUMENTS
    /\ Len(judgments) = 2

\* C12: the row that a final-verdict request writes has the highest version of
\* the case's rows plus one, and is then the one that getLatestJudgment returns,
\* after any earlier requests (no row is written between the read and the write
\* of the request).
C12_FinalVersionIsNext ==
    [][\A s \in Slots :
           (/\ req[s].kind = "final"
            /\ req[s].pc = "saveJudgment"
            /\ req'[s].pc = "cache.delete"
            /\ req[s].judgmentsLength = Len(judgments))
           => LET row == judgments'[Len(judgments')] IN
              /\ row.version = MaxVersion(judgments) + 1
              /\ getLatestJudgment(judgments') = {Some(row)}]_vars

\* C13: the row that a reconsidering submit-argument request writes has the
\* verdict and the legal basis of the case's latest judgment at that moment and
\* that judgment's version plus one, the reasoning of the evaluation's
\* updatedReasoning and the confidence of the evaluation.
C13_ReconsiderationKeepsVerdict ==
    [][\A s \in Slots :
           (/\ req[s].kind = "argument"
            /\ req[s].pc = "saveJudgment"
            /\ req'[s].pc = "cache.delete")
           => LET row == judgments'[Len(judgments')] IN
              \E previous \in getLatestJudgment(judgments) :
                  /\ previous # None
                  /\ row.verdict = previous[1].verdict
                  /\ row.legalBasis = previous[1].legalBasis
                  /\ row.version = previous[1].version + 1
                  /\ row.reasoning = req[s].evaluation[1].updatedReasoning[1]
                  /\ row.confidence = req[s].evaluation[1].confidence]_vars

\* C14: in each of the three generation calls a failed first attempt is
\* followed by a second attempt, and a failed second attempt by the error
\* response: a request at the backend call either succeeds, or goes from attempt
\* 1 to attempt 2, or fails at attempt 2.
C14_OneRetryAfterFailure ==
    [][\A s \in Slots :
           (req[s].pc = "llm" /\ req'[s] # req[s])
           => \/ req'[s].pc \in {"saveJudgment", "saveArgument"}
              \/ (req[s].attempt = 1 /\ req'[s].pc = "llm" /\ req'[s].attempt = 2)
              \/ (/\ req[s].attempt = maxRetries
                  /\ req'[s] = Idle
                  /\ lastResponse'.status = 500)]_vars

\* The calls of a request that write to the store or to the cache.
Writes == {"saveJudgment", "saveArgument", "cache.set", "cache.delete"}

\* C15: a request whose generation call fails on all its attempts is answered
\* 500 and has written nothing: up to and including the failing call it makes
\* no writing call, and the steps of the call leave the judgment rows, the
\* argument rows, the status and the cache entry as they are.
C15_FailedGenerationWritesNothing ==
    [][\A s \in Slots :
           /\ req[s].pc \in {"getCaseById", "getLatestJudgment", "getJudgments", "llm"}
              => /\ \A e \in Writes : ~Called(req[s].trace, e)
                 /\ req[s].writtenAt = 0
           /\ (req[s].pc = "llm" /\ req'[s] # req[s])
              => /\ UNCHANGED <<judgments, arguments, caseStatus, redis>>
                 /\ req'[s].kind = "idle"
                    => /\ lastResponse'.status = 500
                       /\ lastResponse'.kind = req[s].kind
                       /\ lastResponse'.body = None
                       /\ lastResponse'.evaluation = None
                       /\ \A e \in Writes : ~Called(lastResponse'.trace, e)]_vars

\* A final-verdict or submit-argument request was answered 500 for a case with
\* a judgment row and a cache entry.
C15_Witness ==
    /\ lastResponse.status = 500
    /\ lastResponse.kind \in {"argument", "final"}
    /\ Len(judgments) = 1
    /\ redis # None
    /\ \A s \in Slots : req[s].kind = "idle"

\* The confidence bands that the prompts ask for.
TentativeBand == 40..70
FinalBand == 70..95

\* C16: the row that generate-judgment writes has a confidence of 40 to 70 and
\* the row that final-verdict writes one of 70 to 95, whatever confidence the
\* backend returns.
C16_ConfidenceWithinBand ==
    [][\A s \in Slots :
           /\ (/\ req[s].kind = "judgment"
               /\ req[s].pc = "saveJudgment"
               /\ req'[s].pc = "cache.set")
              => judgments'[Len(judgments')].confidence \in TentativeBand
           /\ (/\ req[s].kind = "final"
               /\ req[s].pc = "saveJudgment"
               /\ req'[s].pc = "cache.delete")
              => judgments'[Len(judgments')].confidence \in FinalBand]_vars

\* C17: with submit-argument requests handled one after another, the stored
\* sequence numbers are 1..N in the order of the rows, and the request that
\* stores the k-th argument (of either side) is answered with
\* remainingArguments = 5 - k.
C17_SequenceNumbersInOrder ==
    [][/\ \A i \in DOMAIN arguments : arguments[i].sequenceNumber = i
       /\ Len(arguments) <= MAX_ARGUMENTS
       /\ \A s \in Slots :
              (/\ req[s].kind = "argument"
               /\ req'[s] = Idle
               /\ lastResponse'.status = 200)
              => LET k == Len(arguments') IN
                 /\ k \in 1..MAX_ARGUMENTS
                 /\ arguments'[k].sequenceNumber = k
                 /\ arguments'[k].side = req[s].side
                 /\ lastResponse'.kind = "argument"
                 /\ lastResponse'.remainingArguments = MAX_ARGUMENTS - k]_vars

\* Five arguments from both sides are stored, one of them reconsidered, and a
\* sixth submission has been rejected.
C17_Witness ==
    /\ Len(arguments) = MAX_ARGUMENTS
    /\ \E i, j \in DOMAIN arguments : arguments[i].side = "A" /\ arguments[j].side = "B"
    /\ \E i \in DOMAIN arguments : arguments[i].reconsidered
    /\ lastResponse.kind = "argument"
    /\ lastResponse.status = 400
    /\ lastResponse.trace = <<"getArgumentCount", "respond">>

\* C18: every generate-judgment, submit-argument and final-verdict request is
\* answered in the end, also when the generation backend does not answer a call.
C18_EveryRequestResponds ==
    \A s \in Slots : (req[s].kind # "idle") ~> (req[s].kind = "idle")

\* C19: a request with a missing or malformed required input is answered 400
\* before any call is made and changes nothing: create-case with an empty
\* caseType, jurisdiction or summary writes no row, submit-argument with a side
\* other than A and B or with an empty argument calls no backend and writes no
\* row.  (A step is either such an answer, or not the step of a request with
\* invalid input; create-case is taken for a case that does not exist yet.)
C19_InvalidInputHasNoEffect ==
    [][/\ \/ caseStatus # "none"
          \/ /\ lastResponse'.kind = "create"
             /\ lastResponse'.status = 400
             /\ lastResponse'.trace = <<"respond">>
             /\ UNCHANGED <<storeVars, cacheVars, req>>
          \/ ~\E a, b, c, d \in FieldInputs : \E e, f \in EvidenceInputs :
              \E files \in FileInputs :
                  /\ "" \in {a, b, c, d}
                  /\ CreateCase(a, b, c, d, e, f, files)
       /\ \/ /\ lastResponse'.kind = "argument"
             /\ lastResponse'.status = 400
             /\ lastResponse'.trace = <<"respond">>
             /\ UNCHANGED <<storeVars, cacheVars, req>>
          \/ ~\E s \in Slots, side \in SideInputs, argument \in ArgumentInputs :
                  /\ side \notin {"A", "B"} \/ argument = ""
                  /\ SubmitArgument_GetArgumentCount(s, side, argument)]_vars

\* An invalid submit-argument request has been rejected for a case that has a
\* judgment and room for arguments, while no other request is in flight.
C19_Witness ==
    /\ lastResponse.kind = "argument"
    /\ lastResponse.status = 400
    /\ lastResponse.trace = <<"respond">>
    /\ caseStatus = "judged"
    /\ Len(judgments) = 1
    /\ arguments = <<>>
    /\ started.argument = 1
    /\ \A s \in Slots : req[s] = Idle

\* C20: a request in which the text extraction of an uploaded document failed
\* is answered with an error, never with success.
C20_ExtractionFailureSurfaces ==
    Called(lastResponse.trace, "extractTextFromFile throws")
    => lastResponse.status >= 400

\* C21: getLatestJudgment returns null for a case without judgments, and else
\* the one row of maximum version; the last element of getJudgments, which the
\* final-verdict route hands to the generation, is that same row.
C21_LatestIsTheMaxVersionRow ==
    /\ judgments = <<>> => getLatestJudgment(judgments) = {None}
    /\ judgments # <<>> =>
           \E i \in DOMAIN judgments :
               /\ \A k \in DOMAIN judgments \ {i} :
                      judgments[k].version < judgments[i].version
               /\ getLatestJudgment(judgments) = {Some(judgments[i])}
               /\ \A js \in getJudgments(judgments) : js[Len(js)] = judgments[i]

\* C22: judgment rows and argument rows are append-only and the case_details
\* rows are immutable: every step of every route keeps each row that was
\* written, in its place, and writes the case_details rows only when there are
\* none.
C22_RowsAreAppendOnly ==
    [][/\ Len(judgments') >= Len(judgments)
       /\ \A i \in DOMAIN judgments : judgments'[i] = judgments[i]
       /\ Len(arguments') >= Len(arguments)
       /\ \A i \in DOMAIN arguments : arguments'[i] = arguments[i]
       /\ caseDetails # <<>> => caseDetails' = caseDetails]_vars

\* A case created with an uploaded document has two judgment rows of one
\* version, and a read route has answered last.
C22_Witness ==
    /\ Len(caseDetails) = 2
    /\ caseDetails[1].documents # <<>>
    /\ Len(judgments) >= 2
    /\ \E i, k \in DOMAIN judgments : i # k /\ judgments[i].version = judgments[k].version
    /\ lastResponse.kind \in {"case", "arguments"}
    /\ \A s \in Slots : req[s] = Idle

C24_ArgumentNeedsJudgment ==
    [][/\ Len(arguments') > 0 => Len(judgments') > 0
       /\ \A s \in Slots :
              (/\ req[s].kind = "argument"
               /\ req[s].pc = "getLatestJudgment"
               /\ req'[s] # req[s]
               /\ caseStatus = "none" \/ judgments = <<>>)
              => /\ req'[s] = Idle
                 /\ lastResponse'.kind = "argument"
                 /\ lastResponse'.status = 404
                 /\ lastResponse'.trace = <<"getArgumentCount", "respond">>
                 /\ UNCHANGED <<storeVars, caseDetails, redis>>]_vars

\* A submit-argument request for a case that exists and has no judgment has
\* been answered 404.
C24_Witness ==
    /\ lastResponse.kind = "argument"
    /\ lastResponse.status = 404
    /\ caseStatus = "pending"
    /\ judgments = <<>>
    /\ arguments = <<>>
    /\ \A s \in Slots : req[s] = Idle

\* C25: the strengthens, weakens, uncertaintyRemains and provisionalNote values
\* of a schema-valid evaluation from the backend are stored on the argument row
\* and returned in the submit-argument response; they are absent only when the
\* backend left them out.
C25_EvaluationMetadataKept ==
    [][\A s \in Slots :
          (req[s].kind = "argument" /\ req[s].answer # None)
          => /\ (req[s].pc = "saveArgument" /\ req'[s] # req[s])
                => LET row == arguments'[Len(arguments')] IN
                   \A f \in EvaluationFields : row[f] = Prop(req[s].answer[1], f)
             /\ (req'[s] = Idle /\ lastResponse'.status = 200)
                => \A f \in EvaluationFields :
                       Prop(lastResponse'.evaluation[1], f) = Prop(req[s].answer[1], f)]_vars

\* C26: in one call of generateWithGemini the models are tried in their listed
\* order, a model is tried only after every model before it failed with a
\* capacity error, any other error ends the call at once, the call fails when
\* all models failed with a capacity error, and at most three calls are made.
C26_VariantsInOrder ==
    LET calls == gemini.calls
        Capacity(i) == ~calls[i].outcome.ok /\ IsCapacityError(calls[i].outcome.message)
    IN  /\ Len(calls) <= 3
        /\ \A i \in DOMAIN calls : calls[i].model = GeminiModels[i]
        /\ \A i \in DOMAIN calls : i < Len(calls) => Capacity(i)
        /\ gemini.pc = "calling" => /\ gemini.model = Len(calls) + 1
                                    /\ gemini.model <= 3
                                    /\ \A i \in DOMAIN calls : Capacity(i)
        /\ gemini.pc = "returned" => calls # <<>> /\ calls[Len(calls)].outcome.ok
        /\ gemini.pc = "thrown" => /\ calls # <<>>
                                   /\ ~calls[Len(calls)].outcome.ok
                                   /\ Capacity(Len(calls)) => Len(calls) = 3
        /\ (Len(calls) = 3 /\ \A i \in DOMAIN calls : Capacity(i)) => gemini.pc = "thrown"
        /\ (calls # <<>> /\ ~Capacity(Len(calls))) => gemini.pc \in {"returned", "thrown"}

\* The second model was tried after a 429 of the first and failed with an
\* error that is no capacity error: the call has ended after two calls.
C26_Witness ==
    /\ gemini.pc = "thrown"
    /\ Len(gemini.calls) = 2
    /\ gemini.calls[1].outcome = GeminiError(<<"429", "Too", "Many", "Requests">>)
    /\ gemini.calls[2].outcome = GeminiError(<<"fetch", "failed">>)

\* C27: a submit-argument request whose evaluation is not reconsidered adds
\* exactly one argument row and sets the status to in_argument; it leaves the
\* judgment rows and the cache entry as they are.
C27_PlainArgumentWritesOneRow ==
    [][\A s \in Slots :
          (/\ req[s].kind = "argument"
           /\ req[s].pc = "saveArgument"
           /\ req'[s] # req[s]
           /\ ~req[s].evaluation[1].reconsidered)
          => /\ Len(arguments') = Len(arguments) + 1
             /\ SubSeq(arguments', 1, Len(arguments)) = arguments
             /\ arguments'[Len(arguments')].side = req[s].side
             /\ caseStatus' = "in_argument"
             /\ UNCHANGED <<judgments, caseDetails, redis>>
             /\ req'[s] = Idle
             /\ lastResponse'.status = 200
             /\ lastResponse'.trace = <<"getArgumentCount", "llm", "saveArgument", "respond">>]_vars

\* An argument that was not reconsidered has been recorded for a case whose
\* judgment is in the cache.
C27_Witness ==
    /\ lastResponse.kind = "argument"
    /\ lastResponse.status = 200
    /\ ~lastResponse.evaluation[1].reconsidered
    /\ Len(arguments) = 1
    /\ Len(judgments) = 1
    /\ caseStatus = "in_argument"
    /\ redis # None
    /\ \A s \in Slots : req[s] = Idle

\* C28: a generate-judgment response with status 200, cached or not, carries
\* the verdict, reasoning, legal basis and confidence of a judgment row of
\* maximum version as the store is when the response is sent.
C28_ResponseIsCurrentJudgment ==
    [][(/\ lastResponse'.kind = "judgment"
        /\ lastResponse'.status = 200
        /\ \/ started'.judgment > started.judgment
           \/ \E s \in Slots : req[s].kind = "judgment" /\ req'[s] = Idle)
       => \E l \in getLatestJudgment(judgments') :
              /\ l # None
              /\ Content(l[1]) = Content(lastResponse'.body[1])]_vars

\* C29: remainingArguments is never negative: it is in 0..4 in a submit-argument
\* response with status 200 and in 0..5 in a get-arguments response.
C29_RemainingNotNegative ==
    /\ (lastResponse.kind = "argument" /\ lastResponse.status = 200)
       => lastResponse.remainingArguments \in 0..(MAX_ARGUMENTS - 1)
    /\ (lastResponse.kind = "arguments" /\ lastResponse.status = 200)
       => lastResponse.remainingArguments \in 0..MAX_ARGUMENTS

\* C30: while the argument panel is shown at most one submission is in flight,
\* and when none is in flight (each one has completed, fulfilled or rejected)
\* activeSide is null again.
C30_OneSubmissionThenReset ==
    panel.state = "arguments"
        => /\ Len(panel.inFlight) <= 1
           /\ panel.inFlight = <<>> => panel.activeSide = "null"

====
